---- MODULE Spec2Model ----
(***************************************************************************)
(* MaxBF: the interpreter loop of src/maxbf.c (execute_brainfuck_from_     *)
(* stream), its Tape and its JumpStack, as a state machine.  One action is *)
(* one iteration of the loop `while ((ch = fgetc(fp)) != EOF)': the read   *)
(* of one character, the dispatch on it, the status test and the fgetpos   *)
(* that ends the iteration.                                                *)
(*                                                                         *)
(* Pointers into the two heap blocks (tape->pointer, jump_stack->pos,      *)
(* jump_stack->skip_pos) are modelled by their offset from the block's     *)
(* base, a file position (fpos_t) by the number of characters before it.   *)
(***************************************************************************)
EXTENDS Integers, Sequences, FiniteSets, TLC

(***************************************************************************)
(* Program constants.                                                      *)
(***************************************************************************)
INITIAL_TAPE_SIZE == 1000
INITIAL_JUMP_STACK_SIZE == 100
CELL_VALUE_EOF == 0
DEBUG_NUM_CELLS == 3

TOK_RIGHT == ">"
TOK_LEFT == "<"
TOK_INCREMENT == "+"
TOK_DECREMENT == "-"
TOK_OUTPUT == "."
TOK_INPUT == ","
TOK_JUMP_ZERO == "["
TOK_JUMP_NZERO == "]"
TOK_DEBUG == "#"

STATUS_OK == "STATUS_OK"
STATUS_ERR_ALLOC == "STATUS_ERR_ALLOC"
STATUS_ERR_LBOUND == "STATUS_ERR_LBOUND"
STATUS_ERR_NESTING == "STATUS_ERR_NESTING"
ExecutionStatus ==
    {STATUS_OK, STATUS_ERR_ALLOC, STATUS_ERR_LBOUND, STATUS_ERR_NESTING}

\* The null pointer, as the offset no element of a block has.
NULL == 0 - 1
\* What fgetc returns at the end of a stream.
EOF == "EOF"
\* The content of an fpos_t slot that malloc or realloc returned and that
\* nothing has written yet.
UNINIT == 0 - 2
\* unsigned char: the values of one cell.
UCHAR_RANGE == 256

(***************************************************************************)
(* Bounds of the model.                                                    *)
(***************************************************************************)
\* Every program of at most this many characters is run.
MaxProgLen == 3
\* Every input of at most this many bytes is fed to a program that reads.
MaxInputLen == 1
\* The output sink accepts this many bytes, then blocks.
MaxOutput == 16
\* The standard output accepts this many debug dumps, then blocks.
MaxDebug == 2
\* realloc cannot satisfy a tape of more than this many bytes.
MaxTapeBytes == 4000
\* realloc cannot satisfy a jump stack of more than this many entries.
MaxStackEntries == 400
\* The observer of `+' and `-' counts up to this many commands per cell.
MaxNet == 300
\* The options of a command line.
MaxOptions == 2

(***************************************************************************)
(* The inputs: program texts, program inputs, configurations.              *)
(***************************************************************************)
Commands ==
    {TOK_RIGHT, TOK_LEFT, TOK_INCREMENT, TOK_DECREMENT,
     TOK_OUTPUT, TOK_INPUT, TOK_JUMP_ZERO, TOK_JUMP_NZERO}
\* The eight commands, the debug command and one character that is none.
Alphabet == Commands \cup {TOK_DEBUG, "a"}
\* Bytes an input stream delivers: a control character, a letter, the top byte.
InputBytes == {10, 89, 255}
\* Values the bytes of a block returned by realloc may hold before memset.
Garbage == {0, 170}

Repeat(c, n) == [i \in 1..n |-> c]

AllShort == UNION {[1..n -> Alphabet] : n \in 0..MaxProgLen}
ShortInputs == UNION {[1..n -> InputBytes] : n \in 0..MaxInputLen}

\* The programs of the test suite.
\* >++++++++[<+++++++++>-]<.>++++[<+++++++>-]<+.+++++++..+++.>>++++++[<+++++++>-]
\* <++.------------.>++++++[<+++++++++>-]<+.<.+++.------.--------.>>>++++[<++++++++>-]<+.
PROG_hello_world ==
    <<">","+","+","+","+","+","+","+","+","[","<","+","+","+","+","+","+",
      "+","+","+",">","-","]","<",".",">","+","+","+","+","[","<","+","+",
      "+","+","+","+","+",">","-","]","<","+",".","+","+","+","+","+","+",
      "+",".",".","+","+","+",".",">",">","+","+","+","+","+","+","[","<",
      "+","+","+","+","+","+","+",">","-","]","<","+","+",".","-","-","-",
      "-","-","-","-","-","-","-","-","-",".",">","+","+","+","+","+","+",
      "[","<","+","+","+","+","+","+","+","+","+",">","-","]","<","+",".",
      "<",".","+","+","+",".","-","-","-","-","-","-",".","-","-","-","-",
      "-","-","-","-",".",">",">",">","+","+","+","+","[","<","+","+","+",
      "+","+","+","+","+",">","-","]","<","+",".">>
\* [[][][[]]
PROG_improper_nesting_1 ==
    <<"[","[","]","[","]","[","[","]","]">>
\* [[]][[]
PROG_improper_nesting_2 ==
    <<"[","[","]","]","[","[","]">>
\* abcd[efg]123?
PROG_ignore_characters ==
    <<"a","b","c","d","[","e","f","g","]","1","2","3","?">>
\* [This: < and this [<] shouldn't cause an error]
PROG_bracket_skipping ==
    <<"[","T","h","i","s",":"," ","<"," ","a","n","d"," ","t","h","i","s",
      " ","[","<","]"," ","s","h","o","u","l","d","n","'","t"," ","c","a",
      "u","s","e"," ","a","n"," ","e","r","r","o","r","]">>
\* []++++++++++[>>+>+>++++++[<<+<+++>>>-]<<<<-]"A*$";?@![#>>+<<]>[>>]<<<<[>++<[-]]>.>.
PROG_obscure_problems ==
    <<"[","]","+","+","+","+","+","+","+","+","+","+","[",">",">","+",">",
      "+",">","+","+","+","+","+","+","[","<","<","+","<","+","+","+",">",
      ">",">","-","]","<","<","<","<","-","]","\"","A","*","$","\"",";","?",
      "@","!","[","#",">",">","+","<","<","]",">","[",">",">","]","<","<",
      "<","<","[",">","+","+","<","[","-","]","]",">",".",">",".">>
\* ,.,.,,.>,.
PROG_input ==
    <<",",".",",",".",",",",",".",">",",",".">>
\* Y, newline, &, ?, .
INPUT_input == <<89, 10, 38, 63, 46>>

\* >,>+++++++++,>+++++++++++[<++++++<++++++<+>>>-]<<.>.<<-.>.>.<<.
PROG_io ==
    <<">",",",">","+","+","+","+","+","+","+","+","+",",",">","+","+","+",
      "+","+","+","+","+","+","+","+","[","<","+","+","+","+","+","+","<",
      "+","+","+","+","+","+","<","+",">",">",">","-","]","<","<",".",">",
      ".","<","<","-",".",">",".",">",".","<","<",".">>
\* A newline, then the end of the input.
INPUT_io == <<10>>
\* ++++++++[>++++[>++>+++>+++>+<<<<-]>+>+>->>+[<]<-]>>.>---.+++++++..+++.>>.
\* <-.<.+++.------.--------.>>.+.
PROG_hello_world_2 ==
    <<"+","+","+","+","+","+","+","+","[",">","+","+","+","+","[",">","+",
      "+",">","+","+","+",">","+","+","+",">","+","<","<","<","<","-","]",
      ">","+",">","+",">","-",">",">","+","[","<","]","<","-","]",">",">",
      ".",">","-","-","-",".","+","+","+","+","+","+","+",".",".","+","+",
      "+",".",">",">",".","<","-",".","<",".","+","+","+",".","-","-","-",
      "-","-","-",".","-","-","-","-","-","-","-","-",".",">",">",".","+",
      ".">>

\* A program that walks the tape to the right through two growths, leaving
\* a value in the first cell and in the last cell of each allocation.
PROG_walk_right ==
    <<"-">> \o Repeat(">", INITIAL_TAPE_SIZE - 1) \o <<"+", ">", "-">>
            \o Repeat(">", INITIAL_TAPE_SIZE - 1) \o <<"+", "+", ">", "+">>
\* A program that leaves a value in the last cell of the first allocation,
\* moves right, which makes the tape grow, and comes back.
PROG_walk_back ==
    <<"-">> \o Repeat(">", INITIAL_TAPE_SIZE - 1) \o <<"+", ">", "<">>
\* A program that prints the tape with the cursor on the last allocated
\* cell, moves right, which makes the tape grow, and prints it again.
PROG_debug_edge ==
    Repeat(">", INITIAL_TAPE_SIZE - 1) \o <<"#", ">", "#">>
\* <
PROG_left_bound == <<"<">>
\* A program that uses the debug command: +#-a
PROG_debugging == <<"+","#","-","a">>
\* A loop that runs once and holds a loop that is skipped: +[>[-]<-]
PROG_inner_skip == <<"+","[",">","[","-","]","<","-","]">>
PROG_count_up == <<"+","[","+","]">>
PROG_count_down == <<"-","[","-","]">>
\* A loop that is skipped with a loop and commands inside it.
PROG_nested_skip == <<"[","[","-","]","+",".","<","]",">","+">>
\* A loop that runs twice, a loop that empties a cell and a skipped loop that
\* holds a loop: ++[>+.<-]>[-]<[[-]<]>.
PROG_small_loops ==
    <<"+","+","[",">","+",".","<","-","]",">","[","-","]","<","[","[","-",
      "]","<","]",">",".">>
\* As many `[' as make the jump stack grow, each matched.
PROG_deep_skip ==
    Repeat("[", INITIAL_JUMP_STACK_SIZE) \o Repeat("]", INITIAL_JUMP_STACK_SIZE)
PROG_deep_loop ==
    <<"+">> \o Repeat("[", INITIAL_JUMP_STACK_SIZE) \o <<"-">>
            \o Repeat("]", INITIAL_JUMP_STACK_SIZE)

Chars(p) == {p[i] : i \in 1..Len(p)}

\* The program files: a file is named, or (name "") given by its text.
FileNames ==
    {"hello_world", "improper_nesting_1", "improper_nesting_2",
     "ignore_characters", "bracket_skipping", "obscure_problems", "input",
     "walk_right", "count_up", "count_down", "nested_skip", "small_loops",
     "deep_skip", "deep_loop", "io", "hello_world_2", "walk_back",
     "left_bound", "debugging", "inner_skip", "debug_edge"}

\* The characters of a program file.
FileText(file) ==
    CASE file.name = "" -> file.text
      [] file.name = "hello_world" -> PROG_hello_world
      [] file.name = "improper_nesting_1" -> PROG_improper_nesting_1
      [] file.name = "improper_nesting_2" -> PROG_improper_nesting_2
      [] file.name = "ignore_characters" -> PROG_ignore_characters
      [] file.name = "bracket_skipping" -> PROG_bracket_skipping
      [] file.name = "obscure_problems" -> PROG_obscure_problems
      [] file.name = "input" -> PROG_input
      [] file.name = "walk_right" -> PROG_walk_right
      [] file.name = "count_up" -> PROG_count_up
      [] file.name = "count_down" -> PROG_count_down
      [] file.name = "nested_skip" -> PROG_nested_skip
      [] file.name = "small_loops" -> PROG_small_loops
      [] file.name = "deep_skip" -> PROG_deep_skip
      [] file.name = "deep_loop" -> PROG_deep_loop
      [] file.name = "io" -> PROG_io
      [] file.name = "hello_world_2" -> PROG_hello_world_2
      [] file.name = "walk_back" -> PROG_walk_back
      [] file.name = "left_bound" -> PROG_left_bound
      [] file.name = "debugging" -> PROG_debugging
      [] file.name = "inner_skip" -> PROG_inner_skip
      [] file.name = "debug_edge" -> PROG_debug_edge

\* The number of characters c in the text p.
Count(p, c) == Cardinality({i \in 1..Len(p) : p[i] = c})

\* One run: a program file, the bytes of its input stream, the configuration.
\* The input stream of a short program has at most one byte per `,' of its
\* text, and a program without `#' prints no dump.
ShortRuns ==
    {[file |-> [name |-> "", text |-> r.text], input |-> r.input,
      debug_enabled |-> r.debug_enabled] :
        r \in {q \in [text : AllShort, input : ShortInputs,
                      debug_enabled : BOOLEAN] :
                 /\ Len(q.input) <= Count(q.text, TOK_INPUT)
                 /\ (q.debug_enabled => TOK_DEBUG \in Chars(q.text))}}
TestRuns ==
    {[file |-> [name |-> n, text |-> <<>>],
      input |-> IF n = "input" THEN INPUT_input
                ELSE IF n = "io" THEN INPUT_io ELSE <<>>,
      debug_enabled |-> FALSE] : n \in FileNames}
    \cup {[file |-> [name |-> n, text |-> <<>>],
           input |-> <<>>, debug_enabled |-> TRUE] :
                n \in {"obscure_problems", "debug_edge"}}
Runs == ShortRuns \cup TestRuns

(***************************************************************************)
(* The C library, as far as the interpreter uses it.                       *)
(***************************************************************************)
\* unsigned char arithmetic: the value is reduced modulo UCHAR_MAX + 1.
ToUChar(n) == n % UCHAR_RANGE

\* realloc(block, n) that succeeds: the old content up to the smaller of the
\* two sizes, and indeterminate bytes after it.
realloc(block, n, garbage) ==
    [i \in 0..(n - 1) |-> IF i \in DOMAIN block THEN block[i] ELSE garbage]

\* memset(block + from, value, count)
memset(block, from, value, count) ==
    [i \in DOMAIN block |->
        IF i >= from /\ i < from + count THEN value ELSE block[i]]

(***************************************************************************)
(* Tape                                                                    *)
(***************************************************************************)
\* init_tape that succeeds: calloc gives INITIAL_TAPE_SIZE zero bytes.
init_tape ==
    [data    |-> [i \in 0..(INITIAL_TAPE_SIZE - 1) |-> 0],
     size    |-> INITIAL_TAPE_SIZE,
     pointer |-> 0]

\* init_jump_stack that succeeds: malloc gives INITIAL_JUMP_STACK_SIZE slots
\* that nothing has written.
init_jump_stack ==
    [data     |-> [i \in 0..(INITIAL_JUMP_STACK_SIZE - 1) |-> UNINIT],
     size     |-> INITIAL_JUMP_STACK_SIZE,
     pos      |-> 0,
     skip_pos |-> NULL]

\* The storage of a run: for the block of the tape and for the block of the
\* jump stack, whether the allocation gave it and how many times it was
\* passed to free.  realloc, when it succeeds, hands the block on.
NO_STORAGE ==
    [tape       |-> [allocated |-> FALSE, freed |-> 0],
     jump_stack |-> [allocated |-> FALSE, freed |-> 0]]

\* free(tape->data)
destroy_tape(heap) == [heap EXCEPT !.tape.freed = @ + 1]

\* free(jump_stack->data)
destroy_jump_stack(heap) == [heap EXCEPT !.jump_stack.freed = @ + 1]

\* The locals Tape tape and JumpStack jump_stack before their init call, or
\* after one that failed: data is NULL or not set, the rest is not set.
NO_TAPE == [data |-> <<>>, size |-> UNINIT, pointer |-> UNINIT]
NO_JUMP_STACK ==
    [data |-> <<>>, size |-> UNINIT, pos |-> UNINIT, skip_pos |-> UNINIT]

\* The initialization that does not release the tape when the jump stack
\* cannot be allocated.
execute_init_keeps_tape(calloc_ok, malloc_ok) ==
    IF ~calloc_ok
    THEN [returned |-> TRUE, status |-> STATUS_ERR_ALLOC, tape |-> NO_TAPE,
          jump_stack |-> NO_JUMP_STACK, heap |-> NO_STORAGE]
    ELSE IF ~malloc_ok
    THEN [returned |-> TRUE, status |-> STATUS_ERR_ALLOC, tape |-> init_tape,
          jump_stack |-> NO_JUMP_STACK,
          heap |-> [NO_STORAGE EXCEPT !.tape.allocated = TRUE]]
    ELSE [returned |-> FALSE, status |-> STATUS_OK, tape |-> init_tape,
          jump_stack |-> init_jump_stack,
          heap |-> [NO_STORAGE EXCEPT !.tape.allocated = TRUE,
                                      !.jump_stack.allocated = TRUE]]

\* The start of execute_brainfuck_from_stream: init_tape, init_jump_stack
\* and status = STATUS_OK.  calloc_ok, malloc_ok: whether the allocation of
\* the tape, of the jump stack, succeeds.  A failure returns
\* STATUS_ERR_ALLOC at once.
execute_init(calloc_ok, malloc_ok) ==
    IF ~calloc_ok
    THEN [returned |-> TRUE, status |-> STATUS_ERR_ALLOC, tape |-> NO_TAPE,
          jump_stack |-> NO_JUMP_STACK, heap |-> NO_STORAGE]
    ELSE IF ~malloc_ok
    THEN [returned |-> TRUE, status |-> STATUS_ERR_ALLOC, tape |-> init_tape,
          jump_stack |-> NO_JUMP_STACK,
          heap |-> destroy_tape([NO_STORAGE EXCEPT !.tape.allocated = TRUE])]
    ELSE [returned |-> FALSE, status |-> STATUS_OK, tape |-> init_tape,
          jump_stack |-> init_jump_stack,
          heap |-> [NO_STORAGE EXCEPT !.tape.allocated = TRUE,
                                      !.jump_stack.allocated = TRUE]]

\* The label error: destroy_tape, then destroy_jump_stack.
execute_cleanup(heap) == destroy_jump_stack(destroy_tape(heap))

\* tape_move_right whose test for the edge of the tape is off by one: it
\* compares the pointer with the end of the block, not with its last cell.
tape_move_right_edge_off_by_one(tape, jump_stack, realloc_ok, garbage) ==
    IF jump_stack.skip_pos # NULL
    THEN [status |-> STATUS_OK, tape |-> tape]
    ELSE IF tape.pointer = tape.size
    THEN IF ~realloc_ok
         THEN [status |-> STATUS_ERR_ALLOC,
               tape   |-> [tape EXCEPT !.size = tape.size * 2]]
         ELSE [status |-> STATUS_OK,
               tape   |-> [data    |-> memset(realloc(tape.data, tape.size * 2,
                                                      garbage),
                                              tape.size, 0, tape.size),
                           size    |-> tape.size * 2,
                           pointer |-> tape.pointer + 1]]
    ELSE [status |-> STATUS_OK,
          tape   |-> [tape EXCEPT !.pointer = tape.pointer + 1]]

\* tape_move_right without the memset of the new cells.
tape_move_right_no_memset(tape, jump_stack, realloc_ok, garbage) ==
    IF jump_stack.skip_pos # NULL
    THEN [status |-> STATUS_OK, tape |-> tape]
    ELSE IF tape.pointer = tape.size - 1
    THEN IF ~realloc_ok
         THEN [status |-> STATUS_ERR_ALLOC,
               tape   |-> [tape EXCEPT !.size = tape.size * 2]]
         ELSE [status |-> STATUS_OK,
               tape   |-> [data    |-> realloc(tape.data, tape.size * 2, garbage),
                           size    |-> tape.size * 2,
                           pointer |-> tape.pointer + 1]]
    ELSE [status |-> STATUS_OK,
          tape   |-> [tape EXCEPT !.pointer = tape.pointer + 1]]

\* Each operation returns the status and the structures as it leaves them.
\* realloc_ok: whether the realloc the call may make succeeds.
tape_move_right(tape, jump_stack, realloc_ok, garbage) ==
    IF jump_stack.skip_pos # NULL
    THEN [status |-> STATUS_OK, tape |-> tape]
    ELSE IF tape.pointer = tape.size - 1
    THEN LET pointer_offset == tape.pointer
             original_size == tape.size
             doubled == [tape EXCEPT !.size = tape.size * 2]
         IN  IF ~realloc_ok
             THEN [status |-> STATUS_ERR_ALLOC, tape |-> doubled]
             ELSE LET temp == realloc(tape.data, doubled.size, garbage)
                      zeroed == memset(temp, original_size, 0,
                                       doubled.size - original_size)
                  IN  [status |-> STATUS_OK,
                       tape   |-> [data    |-> zeroed,
                                   size    |-> doubled.size,
                                   pointer |-> pointer_offset + 1]]
    ELSE [status |-> STATUS_OK,
          tape   |-> [tape EXCEPT !.pointer = tape.pointer + 1]]

\* tape_move_left that clears the cell it leaves.
tape_move_left_clears_cell(tape, jump_stack) ==
    IF jump_stack.skip_pos # NULL
    THEN [status |-> STATUS_OK, tape |-> tape]
    ELSE IF tape.pointer = 0
    THEN [status |-> STATUS_ERR_LBOUND, tape |-> tape]
    ELSE [status |-> STATUS_OK,
          tape   |-> [tape EXCEPT !.data[tape.pointer] = 0,
                                  !.pointer = tape.pointer - 1]]

\* tape_move_left that reports the left boundary but moves all the same.
tape_move_left_moves_anyway(tape, jump_stack) ==
    IF jump_stack.skip_pos # NULL
    THEN [status |-> STATUS_OK, tape |-> tape]
    ELSE IF tape.pointer = 0
    THEN [status |-> STATUS_ERR_LBOUND,
          tape   |-> [tape EXCEPT !.pointer = tape.pointer - 1]]
    ELSE [status |-> STATUS_OK,
          tape   |-> [tape EXCEPT !.pointer = tape.pointer - 1]]

\* tape_move_left without the test of the skip marker.
tape_move_left_no_skip_test(tape, jump_stack) ==
    IF tape.pointer = 0
    THEN [status |-> STATUS_ERR_LBOUND, tape |-> tape]
    ELSE [status |-> STATUS_OK,
          tape   |-> [tape EXCEPT !.pointer = tape.pointer - 1]]

tape_move_left(tape, jump_stack) ==
    IF jump_stack.skip_pos # NULL
    THEN [status |-> STATUS_OK, tape |-> tape]
    ELSE IF tape.pointer = 0
    THEN [status |-> STATUS_ERR_LBOUND, tape |-> tape]
    ELSE [status |-> STATUS_OK,
          tape   |-> [tape EXCEPT !.pointer = tape.pointer - 1]]

\* tape_increment without the test of the skip marker.
tape_increment_no_skip_test(tape, jump_stack) ==
    [status |-> STATUS_OK,
     tape   |-> [tape EXCEPT !.data[tape.pointer] = ToUChar(@ + 1)]]

tape_increment(tape, jump_stack) ==
    IF jump_stack.skip_pos # NULL
    THEN [status |-> STATUS_OK, tape |-> tape]
    ELSE [status |-> STATUS_OK,
          tape   |-> [tape EXCEPT
                        !.data[tape.pointer] = ToUChar(@ + 1)]]

\* tape_decrement that stops at 0 instead of wrapping.
tape_decrement_saturating(tape, jump_stack) ==
    IF jump_stack.skip_pos # NULL
    THEN [status |-> STATUS_OK, tape |-> tape]
    ELSE [status |-> STATUS_OK,
          tape   |-> [tape EXCEPT
                        !.data[tape.pointer] = IF @ = 0 THEN 0 ELSE @ - 1]]

tape_decrement(tape, jump_stack) ==
    IF jump_stack.skip_pos # NULL
    THEN [status |-> STATUS_OK, tape |-> tape]
    ELSE [status |-> STATUS_OK,
          tape   |-> [tape EXCEPT
                        !.data[tape.pointer] = ToUChar(@ - 1)]]

\* tape_output without the test of the skip marker.
tape_output_no_skip_test(tape, jump_stack, out) ==
    [status |-> STATUS_OK, out |-> Append(out, tape.data[tape.pointer])]

\* fputc appends the byte to the stream `out'.
tape_output(tape, jump_stack, out) ==
    IF jump_stack.skip_pos # NULL
    THEN [status |-> STATUS_OK, out |-> out]
    ELSE [status |-> STATUS_OK,
          out    |-> Append(out, tape.data[tape.pointer])]

\* tape_input that reads the next byte of the input and leaves it there.
tape_input_keeps_byte(tape, jump_stack, in) ==
    IF jump_stack.skip_pos # NULL
    THEN [status |-> STATUS_OK, tape |-> tape, in |-> in]
    ELSE LET ch == IF in = <<>> THEN CELL_VALUE_EOF ELSE Head(in)
         IN  [status |-> STATUS_OK,
              tape   |-> [tape EXCEPT !.data[tape.pointer] = ToUChar(ch)],
              in     |-> in]

\* tape_input that leaves the cell as it is at the end of the input.
tape_input_eof_keeps_cell(tape, jump_stack, in) ==
    IF jump_stack.skip_pos # NULL \/ in = <<>>
    THEN [status |-> STATUS_OK, tape |-> tape, in |-> in]
    ELSE [status |-> STATUS_OK,
          tape   |-> [tape EXCEPT !.data[tape.pointer] = ToUChar(Head(in))],
          in     |-> Tail(in)]

\* fgetc takes the first byte of the stream `in', or returns EOF.
tape_input(tape, jump_stack, in) ==
    IF jump_stack.skip_pos # NULL
    THEN [status |-> STATUS_OK, tape |-> tape, in |-> in]
    ELSE LET ch == IF in = <<>> THEN CELL_VALUE_EOF ELSE Head(in)
         IN  [status |-> STATUS_OK,
              tape   |-> [tape EXCEPT !.data[tape.pointer] = ToUChar(ch)],
              in     |-> IF in = <<>> THEN in ELSE Tail(in)]

(***************************************************************************)
(* JumpStack                                                               *)
(***************************************************************************)
\* jump_stack_push that stores the position after the character just read.
jump_stack_push_stores_next(jump_stack, pos, realloc_ok) ==
    IF jump_stack.pos = jump_stack.size - 1
    THEN LET doubled == [jump_stack EXCEPT !.size = jump_stack.size * 2]
         IN  IF ~realloc_ok
             THEN [status |-> STATUS_ERR_ALLOC, jump_stack |-> doubled]
             ELSE LET temp == realloc(jump_stack.data, doubled.size, UNINIT)
                  IN  [status     |-> STATUS_OK,
                       jump_stack |->
                          [data     |-> [temp EXCEPT
                                           ![jump_stack.pos + 1] = pos + 1],
                           size     |-> doubled.size,
                           pos      |-> jump_stack.pos + 1,
                           skip_pos |-> jump_stack.skip_pos]]
    ELSE [status     |-> STATUS_OK,
          jump_stack |-> [jump_stack EXCEPT
                            !.pos = jump_stack.pos + 1,
                            !.data[jump_stack.pos + 1] = pos + 1]]

\* jump_stack_push that grows the storage when the stack holds as many
\* bookmarks as the storage has slots, and stores the first bookmark in the
\* first slot.
jump_stack_push_grows_when_full(jump_stack, pos, realloc_ok) ==
    IF jump_stack.pos = jump_stack.size
    THEN LET doubled == [jump_stack EXCEPT !.size = jump_stack.size * 2]
         IN  IF ~realloc_ok
             THEN [status |-> STATUS_ERR_ALLOC, jump_stack |-> doubled]
             ELSE LET temp == realloc(jump_stack.data, doubled.size, UNINIT)
                  IN  [status     |-> STATUS_OK,
                       jump_stack |->
                          [data     |-> [temp EXCEPT ![jump_stack.pos] = pos],
                           size     |-> doubled.size,
                           pos      |-> jump_stack.pos + 1,
                           skip_pos |-> jump_stack.skip_pos]]
    ELSE [status     |-> STATUS_OK,
          jump_stack |-> [jump_stack EXCEPT
                            !.pos = jump_stack.pos + 1,
                            !.data[jump_stack.pos] = pos]]

\* jump_stack_push that does not re-derive the skip marker after a growth:
\* the marker no longer refers to an entry of the stack.
jump_stack_push_loses_marker(jump_stack, pos, realloc_ok) ==
    IF jump_stack.pos = jump_stack.size - 1
    THEN LET doubled == [jump_stack EXCEPT !.size = jump_stack.size * 2]
         IN  IF ~realloc_ok
             THEN [status |-> STATUS_ERR_ALLOC, jump_stack |-> doubled]
             ELSE LET temp == realloc(jump_stack.data, doubled.size, UNINIT)
                  IN  [status     |-> STATUS_OK,
                       jump_stack |->
                          [data     |-> [temp EXCEPT
                                           ![jump_stack.pos + 1] = pos],
                           size     |-> doubled.size,
                           pos      |-> jump_stack.pos + 1,
                           skip_pos |-> NULL]]
    ELSE [status     |-> STATUS_OK,
          jump_stack |-> [jump_stack EXCEPT
                            !.pos = jump_stack.pos + 1,
                            !.data[jump_stack.pos + 1] = pos]]

jump_stack_push(jump_stack, pos, realloc_ok) ==
    IF jump_stack.pos = jump_stack.size - 1
    THEN LET pos_offset == jump_stack.pos
             skip_pos_offset ==
                 IF jump_stack.skip_pos # NULL THEN jump_stack.skip_pos ELSE 0
             doubled == [jump_stack EXCEPT !.size = jump_stack.size * 2]
         IN  IF ~realloc_ok
             THEN [status |-> STATUS_ERR_ALLOC, jump_stack |-> doubled]
             ELSE LET temp == realloc(jump_stack.data, doubled.size, UNINIT)
                  IN  [status     |-> STATUS_OK,
                       jump_stack |->
                          [data     |-> [temp EXCEPT ![pos_offset + 1] = pos],
                           size     |-> doubled.size,
                           pos      |-> pos_offset + 1,
                           skip_pos |-> IF jump_stack.skip_pos # NULL
                                        THEN skip_pos_offset
                                        ELSE NULL]]
    ELSE [status     |-> STATUS_OK,
          jump_stack |-> [jump_stack EXCEPT
                            !.pos = jump_stack.pos + 1,
                            !.data[jump_stack.pos + 1] = pos]]

\* jump_stack_pop without the test for the empty stack: nothing is popped
\* and the position read is that of the start of the stream.
jump_stack_pop_unchecked(jump_stack) ==
    IF jump_stack.pos = 0
    THEN [status |-> STATUS_OK, jump_stack |-> jump_stack, pos |-> 0]
    ELSE [status     |-> STATUS_OK,
          jump_stack |-> [jump_stack EXCEPT !.pos = jump_stack.pos - 1],
          pos        |-> jump_stack.data[jump_stack.pos]]

\* Returns the status, the stack and the popped position (*pos).
jump_stack_pop(jump_stack) ==
    IF jump_stack.pos = 0
    THEN [status |-> STATUS_ERR_NESTING, jump_stack |-> jump_stack,
          pos |-> UNINIT]
    ELSE [status     |-> STATUS_OK,
          jump_stack |-> [jump_stack EXCEPT !.pos = jump_stack.pos - 1],
          pos        |-> jump_stack.data[jump_stack.pos]]

\* tape_jump_if_zero that sets the skip marker to the entry that was the top
\* before the push.
tape_jump_if_zero_marks_old_top(tape, jump_stack, pos, realloc_ok) ==
    LET pushed == jump_stack_push(jump_stack, pos, realloc_ok)
        js == pushed.jump_stack
    IN  IF pushed.status # STATUS_OK
        THEN [status |-> pushed.status, jump_stack |-> js]
        ELSE IF js.skip_pos # NULL
        THEN [status |-> STATUS_OK, jump_stack |-> js]
        ELSE IF tape.data[tape.pointer] = 0
        THEN [status |-> STATUS_OK,
              jump_stack |-> [js EXCEPT !.skip_pos = jump_stack.pos]]
        ELSE [status |-> STATUS_OK, jump_stack |-> js]

\* tape_jump_if_zero without the test of the skip marker: a `[' read in
\* skip-mode tests the cell and sets the marker again.
tape_jump_if_zero_overwrites_marker(tape, jump_stack, pos, realloc_ok) ==
    LET pushed == jump_stack_push(jump_stack, pos, realloc_ok)
        js == pushed.jump_stack
    IN  IF pushed.status # STATUS_OK
        THEN [status |-> pushed.status, jump_stack |-> js]
        ELSE IF tape.data[tape.pointer] = 0
        THEN [status |-> STATUS_OK,
              jump_stack |-> [js EXCEPT !.skip_pos = js.pos]]
        ELSE [status |-> STATUS_OK, jump_stack |-> js]

\* tape_jump_if_zero that never enters skip-mode.
tape_jump_if_zero_no_skip(tape, jump_stack, pos, realloc_ok) ==
    LET pushed == jump_stack_push(jump_stack, pos, realloc_ok)
    IN  [status |-> pushed.status, jump_stack |-> pushed.jump_stack]

\* tape_jump_if_zero that tests the skip marker before the push, so that a
\* `[' read in skip-mode pushes nothing.
tape_jump_if_zero_push_late(tape, jump_stack, pos, realloc_ok) ==
    IF jump_stack.skip_pos # NULL
    THEN [status |-> STATUS_OK, jump_stack |-> jump_stack]
    ELSE LET pushed == jump_stack_push(jump_stack, pos, realloc_ok)
             js == pushed.jump_stack
         IN  IF pushed.status # STATUS_OK
             THEN [status |-> pushed.status, jump_stack |-> js]
             ELSE IF tape.data[tape.pointer] = 0
             THEN [status |-> STATUS_OK,
                   jump_stack |-> [js EXCEPT !.skip_pos = js.pos]]
             ELSE [status |-> STATUS_OK, jump_stack |-> js]

tape_jump_if_zero(tape, jump_stack, pos, realloc_ok) ==
    LET pushed == jump_stack_push(jump_stack, pos, realloc_ok)
        js == pushed.jump_stack
    IN  IF pushed.status # STATUS_OK
        THEN [status |-> pushed.status, jump_stack |-> js]
        ELSE IF js.skip_pos # NULL
        THEN [status |-> STATUS_OK, jump_stack |-> js]
        ELSE IF tape.data[tape.pointer] = 0
        THEN [status |-> STATUS_OK,
              jump_stack |-> [js EXCEPT !.skip_pos = js.pos]]
        ELSE [status |-> STATUS_OK, jump_stack |-> js]

\* tape_jump_if_not_zero that never clears the skip marker.
tape_jump_if_not_zero_keeps_marker(tape, jump_stack, fp) ==
    LET popped == jump_stack_pop(jump_stack)
    IN  IF popped.status # STATUS_OK
        THEN [status |-> popped.status, jump_stack |-> popped.jump_stack,
              fp |-> fp]
        ELSE IF tape.data[tape.pointer] # 0
        THEN [status |-> STATUS_OK, jump_stack |-> popped.jump_stack,
              fp |-> popped.pos]
        ELSE [status |-> STATUS_OK, jump_stack |-> popped.jump_stack,
              fp |-> fp]

\* tape_jump_if_not_zero that clears the skip marker at every `]'.
tape_jump_if_not_zero_clears_marker_always(tape, jump_stack, fp) ==
    LET cleared == [jump_stack EXCEPT !.skip_pos = NULL]
        popped == jump_stack_pop(cleared)
    IN  IF popped.status # STATUS_OK
        THEN [status |-> popped.status, jump_stack |-> popped.jump_stack,
              fp |-> fp]
        ELSE IF tape.data[tape.pointer] # 0
        THEN [status |-> STATUS_OK, jump_stack |-> popped.jump_stack,
              fp |-> popped.pos]
        ELSE [status |-> STATUS_OK, jump_stack |-> popped.jump_stack,
              fp |-> fp]

\* tape_jump_if_not_zero that never moves the read position back.
tape_jump_if_not_zero_no_rewind(tape, jump_stack, fp) ==
    LET cleared == IF jump_stack.skip_pos = jump_stack.pos
                   THEN [jump_stack EXCEPT !.skip_pos = NULL]
                   ELSE jump_stack
    IN  IF cleared.pos = 0
        THEN [status |-> STATUS_ERR_NESTING, jump_stack |-> cleared, fp |-> fp]
        ELSE [status |-> STATUS_OK,
              jump_stack |-> [cleared EXCEPT !.pos = cleared.pos - 1],
              fp |-> fp]

\* tape_jump_if_not_zero whose test is inverted: it moves the read position
\* back when the current cell is 0.
tape_jump_if_not_zero_rewinds_if_zero(tape, jump_stack, fp) ==
    LET cleared == IF jump_stack.skip_pos = jump_stack.pos
                   THEN [jump_stack EXCEPT !.skip_pos = NULL]
                   ELSE jump_stack
    IN  IF cleared.pos = 0
        THEN [status |-> STATUS_ERR_NESTING, jump_stack |-> cleared, fp |-> fp]
        ELSE [status |-> STATUS_OK,
              jump_stack |-> [cleared EXCEPT !.pos = cleared.pos - 1],
              fp |-> IF tape.data[tape.pointer] = 0
                     THEN cleared.data[cleared.pos]
                     ELSE fp]

\* fp: the read position of the program stream before the call; the result's
\* fp is the read position after it (fsetpos moves it to the popped position).
tape_jump_if_not_zero(tape, jump_stack, fp) ==
    LET cleared == IF jump_stack.skip_pos = jump_stack.pos
                   THEN [jump_stack EXCEPT !.skip_pos = NULL]
                   ELSE jump_stack
        popped == jump_stack_pop(cleared)
    IN  IF popped.status # STATUS_OK
        THEN [status |-> popped.status, jump_stack |-> popped.jump_stack,
              fp |-> fp]
        ELSE IF tape.data[tape.pointer] # 0
        THEN [status |-> STATUS_OK, jump_stack |-> popped.jump_stack,
              fp |-> popped.pos]
        ELSE [status |-> STATUS_OK, jump_stack |-> popped.jump_stack,
              fp |-> fp]

\* The seven cells the debug command prints, each with its index: a cell
\* past the allocated size is printed as 0.
tape_print_debug_info(tape) ==
    LET first == IF tape.pointer < DEBUG_NUM_CELLS
                 THEN 0
                 ELSE tape.pointer - DEBUG_NUM_CELLS
    IN  [i \in 1..(DEBUG_NUM_CELLS * 2 + 1) |->
            LET cell_index == first + i - 1
            IN  [index |-> cell_index,
                 value |-> IF cell_index < tape.size
                           THEN tape.data[cell_index]
                           ELSE 0,
                 current |-> cell_index = tape.pointer]]

(***************************************************************************)
(* The reference semantics of the commands, as the documentation states    *)
(* it: `[' jumps to the matching `]' when the current cell is 0, `]' jumps *)
(* to the matching `[' when it is not.  The matching is computed from the  *)
(* program text alone.                                                     *)
(***************************************************************************)
\* The function f, evaluated at all its arguments once (a function
\* expression is otherwise evaluated again at each application).
Evaluated(f) == IF f = f THEN f ELSE f

\* The number of `[' minus the number of `]' among the first n characters
\* of a text whose `[' are at the indices opens and whose `]' at closes.
Depth(opens, closes, n) ==
    Cardinality({i \in opens : i <= n}) - Cardinality({i \in closes : i <= n})

DepthTable(p) ==
    LET opens == {i \in 1..Len(p) : p[i] = TOK_JUMP_ZERO}
        closes == {i \in 1..Len(p) : p[i] = TOK_JUMP_NZERO}
    IN  [n \in 0..Len(p) |-> Depth(opens, closes, n)]

Least(S) == CHOOSE x \in S : \A y \in S : x <= y

\* The bracket-matching table of program p: for the index of each bracket
\* the index of the bracket that matches it, 0 when none does.  A `[' at i
\* is closed by the first `]' after it that returns to the depth before i;
\* a `]' at i closes the last `[' before it that left the depth after i.
MatchTable(p) ==
    LET d == Evaluated(DepthTable(p))
        closing(i) == {j \in (i + 1)..Len(p) :
                        /\ d[j] = d[i - 1]
                        /\ \A k \in i..(j - 1) : d[k] > d[i - 1]}
        opening(i) == {j \in 1..(i - 1) :
                        /\ d[j - 1] = d[i]
                        /\ \A k \in j..(i - 1) : d[k] > d[i]}
    IN  [i \in {k \in 1..Len(p) : p[k] \in {TOK_JUMP_ZERO, TOK_JUMP_NZERO}} |->
            IF p[i] = TOK_JUMP_ZERO
            THEN IF closing(i) = {} THEN 0 ELSE CHOOSE j \in closing(i) : TRUE
            ELSE IF opening(i) = {} THEN 0 ELSE CHOOSE j \in opening(i) : TRUE]

\* What the text of program p says about its brackets.
\*   match:  the bracket-matching table;
\*   proper: each `[' has a matching `]' and each `]' a matching `[';
\*   stray:  the index of the first `]' with no `[' to match (0: none);
\*   open:   some `[' has no matching `]'.
Brackets(p) ==
    LET m == Evaluated(MatchTable(p))
        strays == {i \in 1..Len(p) : p[i] = TOK_JUMP_NZERO /\ m[i] = 0}
    IN  [match  |-> m,
         proper |-> \A i \in DOMAIN m : m[i] # 0,
         stray  |-> IF strays = {} THEN 0 ELSE Least(strays),
         open   |-> \E i \in 1..Len(p) : p[i] = TOK_JUMP_ZERO /\ m[i] = 0]

\* The reference tape is unbounded to the right: cells holds the cells that
\* were written, every other cell is 0.
RefInit(in) ==
    [ip |-> 1, cells |-> <<>>, cur |-> 0, in |-> in, out |-> <<>>,
     stat |-> "run"]

RefCell(r, i) == IF i \in DOMAIN r.cells THEN r.cells[i] ELSE 0

RefPut(r, v) ==
    [r EXCEPT !.ip = r.ip + 1,
              !.cells = [i \in DOMAIN r.cells \cup {r.cur} |->
                            IF i = r.cur THEN v ELSE r.cells[i]]]

\* One instruction of the reference interpreter on program p, whose
\* bracket-matching table is match.
RefExec(p, match, r) ==
    IF r.stat # "run" THEN r
    ELSE IF r.ip > Len(p) THEN [r EXCEPT !.stat = "done"]
    ELSE LET c == p[r.ip]
             v == RefCell(r, r.cur)
             next == [r EXCEPT !.ip = r.ip + 1]
         IN  CASE c = TOK_RIGHT ->
                    [next EXCEPT !.cur = r.cur + 1]
               [] c = TOK_LEFT ->
                    IF r.cur = 0 THEN [r EXCEPT !.stat = "fault"]
                    ELSE [next EXCEPT !.cur = r.cur - 1]
               [] c = TOK_INCREMENT ->
                    RefPut(r, IF v = 255 THEN 0 ELSE v + 1)
               [] c = TOK_DECREMENT ->
                    RefPut(r, IF v = 0 THEN 255 ELSE v - 1)
               [] c = TOK_OUTPUT ->
                    [next EXCEPT !.out = Append(r.out, v)]
               [] c = TOK_INPUT ->
                    IF r.in = <<>>
                    THEN RefPut(r, 0)
                    ELSE [RefPut(r, Head(r.in)) EXCEPT !.in = Tail(r.in)]
               [] c = TOK_JUMP_ZERO ->
                    IF match[r.ip] = 0 THEN [r EXCEPT !.stat = "fault"]
                    ELSE IF v = 0 THEN [r EXCEPT !.ip = match[r.ip] + 1]
                    ELSE next
               [] c = TOK_JUMP_NZERO ->
                    IF match[r.ip] = 0 THEN [r EXCEPT !.stat = "fault"]
                    ELSE IF v # 0 THEN [r EXCEPT !.ip = match[r.ip]]
                    ELSE next
               [] OTHER -> next

(***************************************************************************)
(* main: the command line, the files and the exit of the process.          *)
(***************************************************************************)
EXIT_SUCCESS == 0
EXIT_FAILURE == 1
OPTION_HELP == "-h"
OPTION_VERSION == "-v"
OPTION_INPUT == "-i"
OPTION_OUTPUT == "-o"
OPTION_DEBUG == "-d"
Options ==
    {OPTION_HELP, OPTION_VERSION, OPTION_INPUT, OPTION_OUTPUT, OPTION_DEBUG}

\* A char * or FILE * that is NULL, and one that was never assigned.
NO_NAME == "(null)"
NO_STREAM == "(null)"
UNINIT_STREAM == "(uninitialized)"

\* The files beside the program files: one that can be read and written, one
\* that can be written, one that can only be read, and a name of no file.
FILE_IN == "in.txt"
FILE_OUT == "out.txt"
FILE_READ_ONLY == "ro.txt"
FILE_MISSING == "none.txt"
BYTES_stdin == INPUT_input
BYTES_in == <<38, 63>>
FileSystem ==
    (FILE_IN :> [exists |-> TRUE, writable |-> TRUE, bytes |-> BYTES_in])
    @@ (FILE_OUT :> [exists |-> TRUE, writable |-> TRUE, bytes |-> <<1>>])
    @@ (FILE_READ_ONLY :> [exists |-> TRUE, writable |-> FALSE, bytes |-> <<2>>])
    @@ (FILE_MISSING :> [exists |-> FALSE, writable |-> TRUE, bytes |-> <<>>])

\* fopen(name, "r") and fopen(name, "w") succeed.
CanRead(fs, name) == name \in DOMAIN fs /\ fs[name].exists
CanWrite(fs, name) == name \in DOMAIN fs /\ fs[name].writable
\* fopen(name, "w") creates the file or truncates it.
Truncated(fs, name) ==
    [fs EXCEPT ![name] = [exists |-> TRUE, writable |-> TRUE, bytes |-> <<>>]]

\* The body of the switch over the option fetched, for the three options
\* that do not return: no case ends with a break, so OPTION_INPUT runs the
\* statements of OPTION_OUTPUT and OPTION_DEBUG too, and OPTION_OUTPUT the
\* statement of OPTION_DEBUG.
main_option(config, identifier, value) ==
    LET in_done  == IF identifier = OPTION_INPUT
                    THEN [config EXCEPT !.input_file = value]
                    ELSE config
        out_done == IF identifier \in {OPTION_INPUT, OPTION_OUTPUT}
                    THEN [in_done EXCEPT !.output_file = value]
                    ELSE in_done
    IN  IF identifier \in {OPTION_INPUT, OPTION_OUTPUT, OPTION_DEBUG}
        THEN [out_done EXCEPT !.debug_enabled = TRUE]
        ELSE out_done

\* The switch over the status returned, with STATUS_ERR_NESTING taken for
\* success.
main_status_nesting_is_success(st) ==
    CASE st = STATUS_OK ->
            [code |-> EXIT_SUCCESS, msg |-> NO_NAME]
      [] st = STATUS_ERR_ALLOC ->
            [code |-> EXIT_FAILURE, msg |-> "Error while allocating memory."]
      [] st = STATUS_ERR_LBOUND ->
            [code |-> EXIT_FAILURE,
             msg |-> "The program went past the start of the tape."]
      [] st = STATUS_ERR_NESTING ->
            [code |-> EXIT_SUCCESS, msg |-> NO_NAME]

\* The switch over the status that execute_brainfuck_from_stream returned:
\* the exit code of the process and the message of exit_with_error.
main_status(st) ==
    CASE st = STATUS_OK ->
            [code |-> EXIT_SUCCESS, msg |-> NO_NAME]
      [] st = STATUS_ERR_ALLOC ->
            [code |-> EXIT_FAILURE, msg |-> "Error while allocating memory."]
      [] st = STATUS_ERR_LBOUND ->
            [code |-> EXIT_FAILURE,
             msg |-> "The program went past the start of the tape."]
      [] st = STATUS_ERR_NESTING ->
            [code |-> EXIT_FAILURE, msg |-> "Improperly nested jumps [ and ]."]

\* The caller of the tests: test_interpreter calls
\* execute_brainfuck_from_stream with stdin, stdout and its own config.
test_interpreter ==
    [pc |-> "test", argv |-> <<>>, index |-> 0,
     config |-> [input_file |-> NO_NAME, output_file |-> NO_NAME,
                 debug_enabled |-> FALSE],
     input_stream |-> "stdin", output_stream |-> "stdout",
     fp |-> NO_STREAM, error_msg |-> NO_NAME,
     exit |-> "running", code |-> EXIT_SUCCESS,
     stderr |-> <<>>, stdout |-> <<>>, fs |-> FileSystem]

(***************************************************************************)
(* The state.                                                              *)
(***************************************************************************)
VARIABLES
    file,            \* the program file that the stream fp reads
    debug_enabled,   \* config->debug_enabled
    input_stream,    \* the bytes of the input stream not read yet
    output_stream,   \* the bytes written to the output stream
    stdout_dump,     \* the dumps the debug command has printed
    fp,              \* the read position of the program stream
    pos,             \* the local fpos_t pos
    ch,              \* the local int ch: the character last read, or EOF
    status,          \* the local ExecutionStatus status
    tape,            \* the local Tape tape
    jump_stack,      \* the local JumpStack jump_stack
    pc,              \* "loop": in the while loop; "done": returned status
    brackets,        \* Brackets(prog): the nesting of the program text
    ref,             \* the reference interpreter run beside the engine
    net,             \* per cell, the `+' and `-' executed on it
    main,            \* the caller: main() and its locals, or a test
    heap             \* the storage allocated for the tape and the jump stack

vars == <<file, debug_enabled, input_stream, output_stream, stdout_dump, fp,
          pos, ch, status, tape, jump_stack, pc, brackets, ref, net, main,
          heap>>

\* The characters of the program stream fp.
prog == FileText(file)

Skipping == jump_stack.skip_pos # NULL

\* The reference interpreter executes an instruction whenever the engine
\* executes a character outside skip-mode (or reads the end of the stream).
RefStep == IF Skipping THEN ref ELSE RefExec(prog, brackets.match, ref)

\* The count of the `+' and `-' executed on each cell, kept while nothing
\* else has written the cell and at most MaxNet of them were executed.
NetOf(i) == IF i \in DOMAIN net THEN net[i]
            ELSE [plus |-> 0, minus |-> 0, valid |-> TRUE]
NetSet(i, n) == [j \in DOMAIN net \cup {i} |-> IF j = i THEN n ELSE net[j]]
NetStep(c) ==
    LET i == tape.pointer
        n == NetOf(i)
    IN  IF Skipping THEN net
        ELSE IF c = TOK_INPUT THEN NetSet(i, [n EXCEPT !.valid = FALSE])
        ELSE IF c \notin {TOK_INCREMENT, TOK_DECREMENT} \/ ~n.valid THEN net
        ELSE IF n.plus + n.minus >= MaxNet
        THEN NetSet(i, [n EXCEPT !.valid = FALSE])
        ELSE IF c = TOK_INCREMENT
        THEN NetSet(i, [n EXCEPT !.plus = n.plus + 1])
        ELSE NetSet(i, [n EXCEPT !.minus = n.minus + 1])

Init ==
    /\ \E r \in Runs :
        /\ file = r.file
        /\ debug_enabled = r.debug_enabled
        /\ input_stream = r.input
        /\ ref = RefInit(r.input)
        /\ brackets = Brackets(FileText(r.file))
    /\ output_stream = <<>>
    /\ stdout_dump = <<>>
    /\ fp = 0
    /\ pos = 0
    /\ ch = "none"
    /\ status = STATUS_OK
    /\ tape = init_tape
    /\ jump_stack = init_jump_stack
    /\ pc = "loop"
    /\ net = <<>>
    /\ main = test_interpreter
    /\ heap = execute_init(TRUE, TRUE).heap

(***************************************************************************)
(* One iteration of the loop of execute_brainfuck_from_stream.             *)
(***************************************************************************)
\* fgetc(fp) returns the character c.
Reads(c) ==
    /\ pc = "loop"
    /\ fp < Len(prog)
    /\ prog[fp + 1] = c

\* The end of an iteration that goes on with the loop whatever the status.
EndOfIteration_goes_on(c, st, after) ==
    /\ ch' = c
    /\ status' = st
    /\ fp' = after
    /\ pc' = "loop"
    /\ pos' = after
    /\ ref' = RefStep
    /\ net' = NetStep(c)
    /\ UNCHANGED <<main, file, debug_enabled, brackets, heap>>

\* The end of an iteration whose command returned st and left the read
\* position at after: a failure leaves the loop, success records the
\* position with fgetpos.
EndOfIteration(c, st, after) ==
    /\ ch' = c
    /\ status' = st
    /\ fp' = after
    /\ IF st # STATUS_OK
       THEN pc' = "done" /\ pos' = pos /\ heap' = execute_cleanup(heap)
       ELSE pc' = "loop" /\ pos' = after /\ heap' = heap
    /\ ref' = RefStep
    /\ net' = NetStep(c)
    /\ UNCHANGED <<main, file, debug_enabled, brackets>>

StepRight ==
    /\ Reads(TOK_RIGHT)
    /\ \E realloc_ok \in BOOLEAN, garbage \in Garbage :
        /\ realloc_ok => tape.size * 2 <= MaxTapeBytes
        /\ LET r == tape_move_right(tape, jump_stack, realloc_ok, garbage)
           IN  /\ tape' = r.tape
               /\ EndOfIteration(TOK_RIGHT, r.status, fp + 1)
    /\ UNCHANGED <<jump_stack, input_stream, output_stream, stdout_dump>>

StepLeft ==
    /\ Reads(TOK_LEFT)
    /\ LET r == tape_move_left(tape, jump_stack)
       IN  /\ tape' = r.tape
           /\ EndOfIteration(TOK_LEFT, r.status, fp + 1)
    /\ UNCHANGED <<jump_stack, input_stream, output_stream, stdout_dump>>

StepIncrement ==
    /\ Reads(TOK_INCREMENT)
    /\ LET r == tape_increment(tape, jump_stack)
       IN  /\ tape' = r.tape
           /\ EndOfIteration(TOK_INCREMENT, r.status, fp + 1)
    /\ UNCHANGED <<jump_stack, input_stream, output_stream, stdout_dump>>

StepDecrement ==
    /\ Reads(TOK_DECREMENT)
    /\ LET r == tape_decrement(tape, jump_stack)
       IN  /\ tape' = r.tape
           /\ EndOfIteration(TOK_DECREMENT, r.status, fp + 1)
    /\ UNCHANGED <<jump_stack, input_stream, output_stream, stdout_dump>>

StepOutput ==
    /\ Reads(TOK_OUTPUT)
    /\ Skipping \/ Len(output_stream) < MaxOutput
    /\ LET r == tape_output(tape, jump_stack, output_stream)
       IN  /\ output_stream' = r.out
           /\ EndOfIteration(TOK_OUTPUT, r.status, fp + 1)
    /\ UNCHANGED <<tape, jump_stack, input_stream, stdout_dump>>

StepInput ==
    /\ Reads(TOK_INPUT)
    /\ LET r == tape_input(tape, jump_stack, input_stream)
       IN  /\ tape' = r.tape
           /\ input_stream' = r.in
           /\ EndOfIteration(TOK_INPUT, r.status, fp + 1)
    /\ UNCHANGED <<jump_stack, output_stream, stdout_dump>>

StepJumpZero ==
    /\ Reads(TOK_JUMP_ZERO)
    /\ \E realloc_ok \in BOOLEAN :
        /\ realloc_ok => jump_stack.size * 2 <= MaxStackEntries
        /\ LET r == tape_jump_if_zero(tape, jump_stack, pos, realloc_ok)
           IN  /\ jump_stack' = r.jump_stack
               /\ EndOfIteration(TOK_JUMP_ZERO, r.status, fp + 1)
    /\ UNCHANGED <<tape, input_stream, output_stream, stdout_dump>>

StepJumpNotZero ==
    /\ Reads(TOK_JUMP_NZERO)
    /\ LET r == tape_jump_if_not_zero(tape, jump_stack, fp + 1)
       IN  /\ jump_stack' = r.jump_stack
           /\ EndOfIteration(TOK_JUMP_NZERO, r.status, r.fp)
    /\ UNCHANGED <<tape, input_stream, output_stream, stdout_dump>>

\* case TOK_DEBUG that prints the dump whatever the configuration.
StepDebug_always_dumps ==
    /\ Reads(TOK_DEBUG)
    /\ Len(stdout_dump) < MaxDebug
    /\ stdout_dump' = Append(stdout_dump, tape_print_debug_info(tape))
    /\ EndOfIteration(TOK_DEBUG, STATUS_OK, fp + 1)
    /\ UNCHANGED <<tape, jump_stack, input_stream, output_stream>>

\* case TOK_DEBUG with a tape_print_debug_info that makes the tape grow when
\* the cells it prints pass the end of the allocation.
StepDebug_materializes_window ==
    /\ Reads(TOK_DEBUG)
    /\ IF debug_enabled
       THEN /\ Len(stdout_dump) < MaxDebug
            /\ stdout_dump' = Append(stdout_dump, tape_print_debug_info(tape))
            /\ tape' = IF tape.pointer + DEBUG_NUM_CELLS >= tape.size
                       THEN [tape EXCEPT
                               !.data = memset(realloc(tape.data, tape.size * 2, 0),
                                               tape.size, 0, tape.size),
                               !.size = tape.size * 2]
                       ELSE tape
       ELSE UNCHANGED <<stdout_dump, tape>>
    /\ EndOfIteration(TOK_DEBUG, IF debug_enabled THEN STATUS_OK ELSE status,
                      fp + 1)
    /\ UNCHANGED <<jump_stack, input_stream, output_stream>>

\* case TOK_DEBUG falls through to default; tape_print_debug_info returns
\* STATUS_OK.
StepDebug ==
    /\ Reads(TOK_DEBUG)
    /\ IF debug_enabled
       THEN /\ Len(stdout_dump) < MaxDebug
            /\ stdout_dump' = Append(stdout_dump, tape_print_debug_info(tape))
       ELSE UNCHANGED stdout_dump
    /\ EndOfIteration(TOK_DEBUG, IF debug_enabled THEN STATUS_OK ELSE status,
                      fp + 1)
    /\ UNCHANGED <<tape, jump_stack, input_stream, output_stream>>

\* default: every other character is ignored.
StepIgnore ==
    /\ \E c \in Chars(prog) \ (Commands \cup {TOK_DEBUG}) :
        /\ Reads(c)
        /\ EndOfIteration(c, status, fp + 1)
    /\ UNCHANGED <<tape, jump_stack, input_stream, output_stream, stdout_dump>>

\* The end of the stream without the test of the jump stack.
EndOfStream_no_test ==
    /\ pc = "loop"
    /\ fp = Len(prog)
    /\ ch' = EOF
    /\ pc' = "done"
    /\ heap' = execute_cleanup(heap)
    /\ ref' = RefStep
    /\ UNCHANGED <<main, file, debug_enabled, brackets, input_stream, output_stream,
                   stdout_dump, fp, pos, status, tape, jump_stack, net>>

\* The end of the stream with a test of the skip marker in place of the test
\* of the jump stack.
EndOfStream_tests_skip_marker ==
    /\ pc = "loop"
    /\ fp = Len(prog)
    /\ ch' = EOF
    /\ status' = IF jump_stack.skip_pos # NULL
                 THEN STATUS_ERR_NESTING
                 ELSE status
    /\ pc' = "done"
    /\ heap' = execute_cleanup(heap)
    /\ ref' = RefStep
    /\ UNCHANGED <<main, file, debug_enabled, brackets, input_stream, output_stream,
                   stdout_dump, fp, pos, tape, jump_stack, net>>

\* fgetc returns EOF: the loop ends, and an entry left on the jump stack is
\* an opening bracket that was never closed.
EndOfStream ==
    /\ pc = "loop"
    /\ fp = Len(prog)
    /\ ch' = EOF
    /\ status' = IF jump_stack.pos # 0 THEN STATUS_ERR_NESTING ELSE status
    /\ pc' = "done"
    /\ heap' = execute_cleanup(heap)
    /\ ref' = RefStep
    /\ UNCHANGED <<main, file, debug_enabled, brackets, input_stream, output_stream,
                   stdout_dump, fp, pos, tape, jump_stack, net>>

Next ==
    \/ StepRight
    \/ StepLeft
    \/ StepIncrement
    \/ StepDecrement
    \/ StepOutput
    \/ StepInput
    \/ StepJumpZero
    \/ StepJumpNotZero
    \/ StepDebug
    \/ StepIgnore
    \/ EndOfStream

Spec == Init /\ [][Next]_vars

(***************************************************************************)
(* Properties.                                                             *)
(***************************************************************************)
Done == pc = "done"

\* The engine is about to execute command c outside skip-mode.
Executes(c) == Reads(c) /\ ~Skipping

\* C1: for a program whose brackets are properly nested and whose execution
\* never moves left of cell 0, the engine and the reference interpreter agree:
\* at every moment on the output, the consumed input, the cursor, the current
\* cell and every cell the reference interpreter has written; between commands executed
\* outside skip-mode on the instruction to execute next; and at the end,
\* which the engine reaches with STATUS_OK exactly when the reference
\* interpreter has run off the end of the program (unless the tape or the
\* jump stack could not grow), on every cell of the tape.
C1_RefinesReference ==
    (brackets.proper /\ ref.stat # "fault" /\ status # STATUS_ERR_ALLOC) =>
        /\ status = STATUS_OK
        /\ output_stream = ref.out
        /\ input_stream = ref.in
        /\ tape.pointer = ref.cur
        /\ tape.data[tape.pointer] = RefCell(ref, ref.cur)
        /\ \A i \in DOMAIN ref.cells : i < tape.size /\ tape.data[i] = ref.cells[i]
        /\ Done => \A i \in 0..(tape.size - 1) : tape.data[i] = RefCell(ref, i)
        /\ (Done <=> ref.stat = "done")
        /\ (~Done /\ ~Skipping => ref.ip = fp + 1)
        /\ (Skipping => ref.ip > fp + 1)

\* A properly nested program with skipped and repeated loops has ended, with
\* the output of each pass of its first loop and of the cell its second
\* loop emptied.
C1_Witness ==
    /\ Done
    /\ prog = PROG_small_loops
    /\ status = STATUS_OK
    /\ ref.stat = "done"
    /\ output_stream = <<1, 2, 0>>

\* C2: a program whose brackets are not properly nested never ends with
\* STATUS_OK.
C2_ImproperNeverOK ==
    (Done /\ ~brackets.proper) => status # STATUS_OK

\* An improperly nested program that changed the tape before its run ended
\* with an error.
C2_Witness ==
    /\ Done
    /\ ~brackets.proper
    /\ status = STATUS_ERR_NESTING
    /\ tape.data[0] # 0
    /\ fp > 1

\* C3, as stated: a program with a `[' that no `]' matches ends with the
\* nesting error, and does so at the end of the stream.
C3_Original ==
    (Done /\ brackets.open) => (status = STATUS_ERR_NESTING /\ ch = EOF)

\* C3, amended: when a program has a `[' that no `]' matches, a run that
\* reaches the end of the stream ends there with the nesting error, and a run
\* that ends before it ends with the left-boundary error, the allocation
\* error, or the nesting error at the first `]' that has no `[' to match.
C3_UnmatchedOpenReportedAtEnd ==
    (Done /\ brackets.open) =>
        /\ ch = EOF =>
            /\ status = STATUS_ERR_NESTING
            /\ fp = Len(prog)
            /\ jump_stack.pos # 0
        /\ ch # EOF =>
            \/ status \in {STATUS_ERR_LBOUND, STATUS_ERR_ALLOC}
            \/ /\ status = STATUS_ERR_NESTING
               /\ ch = TOK_JUMP_NZERO
               /\ fp = brackets.stray

\* The run of a program with an unmatched `[' and no stray `]' has read past
\* matched brackets to the end of the stream.
C3_Witness ==
    /\ Done
    /\ prog = PROG_improper_nesting_1
    /\ ch = EOF
    /\ status = STATUS_ERR_NESTING

C5_NestingErrorOnlyIfUnmatched ==
    status = STATUS_ERR_NESTING =>
        /\ ~brackets.proper
        /\ Done
        /\ \/ ch = TOK_JUMP_NZERO /\ jump_stack.pos = 0 /\ fp = brackets.stray
           \/ ch = EOF /\ jump_stack.pos # 0 /\ brackets.open

\* A properly nested program whose first loop is skipped and holds a loop
\* has ended without error and with the jump stack empty.
C5_Witness ==
    /\ Done
    /\ prog = PROG_nested_skip
    /\ brackets.proper
    /\ status = STATUS_OK
    /\ jump_stack.pos = 0
    /\ tape.data[1] = 1

\* C6: outside skip-mode, `<' with the cursor at index 0 fails with the
\* left-boundary error, which ends the run, and changes neither the tape
\* (cursor, cells, capacity) nor the jump stack (entries, skip marker) nor
\* the output.
C6_LeftBoundFailsAndChangesNothing ==
    [][ (Executes(TOK_LEFT) /\ tape.pointer = 0) =>
            /\ status' = STATUS_ERR_LBOUND
            /\ pc' = "done"
            /\ tape' = tape
            /\ jump_stack' = jump_stack
            /\ output_stream' = output_stream
            /\ input_stream' = input_stream ]_vars

\* A run has ended with the left-boundary error inside a loop, with a cell
\* that is not 0.
C6_Witness ==
    /\ Done
    /\ status = STATUS_ERR_LBOUND
    /\ ch = TOK_LEFT
    /\ tape.pointer = 0
    /\ tape.data[0] # 0
    /\ jump_stack.pos > 0

\* C7, as stated: `<' with the cursor at index 0 fails with the left-boundary
\* error and leaves the tape as it is, whatever the jump stack and the skip
\* marker.
C7_Original ==
    [][ (Reads(TOK_LEFT) /\ tape.pointer = 0) =>
            (status' = STATUS_ERR_LBOUND /\ tape' = tape) ]_vars

\* C7, amended: `<' with the cursor at index 0 never changes the tape; it
\* fails with the left-boundary error when the skip marker is not set, and
\* returns STATUS_OK, the run going on, when it is set.
C7_LeftAtZeroFailsOutsideSkipMode ==
    [][ (Reads(TOK_LEFT) /\ tape.pointer = 0) =>
            /\ tape' = tape
            /\ jump_stack' = jump_stack
            /\ ~Skipping => (status' = STATUS_ERR_LBOUND /\ pc' = "done")
            /\ Skipping => (status' = STATUS_OK /\ pc' = "loop") ]_vars

\* `<' was read in skip-mode with the cursor at index 0, and the run goes on.
C7_Witness ==
    /\ ~Done
    /\ ch = TOK_LEFT
    /\ Skipping
    /\ tape.pointer = 0
    /\ status = STATUS_OK

\* C8: the cursor is a valid index of the allocated tape.
C8_CursorInTape ==
    /\ tape.pointer >= 0
    /\ tape.pointer < tape.size
    /\ tape.pointer \in DOMAIN tape.data

\* The cursor is on the first cell that a growth of the tape added.
C8_Witness ==
    /\ tape.size = 2 * INITIAL_TAPE_SIZE
    /\ tape.pointer = INITIAL_TAPE_SIZE
    /\ tape.data[tape.pointer] = 0
    /\ status = STATUS_OK

\* The value of cell i is its count of `+' minus its count of `-', modulo 256.
NetCountHolds(i) ==
    net[i].valid =>
        \E k \in -2..2 :
            /\ net[i].plus - net[i].minus = tape.data[i] + k * UCHAR_RANGE
            /\ tape.data[i] \in 0..(UCHAR_RANGE - 1)

\* C9: a cell that only `+' and `-' have written holds the number of `+'
\* minus the number of `-' executed on it, modulo 256, and neither command
\* ever fails.
C9_CellIsNetCount ==
    /\ [](\A i \in DOMAIN net : NetCountHolds(i))
    /\ [][ (Executes(TOK_INCREMENT) \/ Executes(TOK_DECREMENT)) =>
              (status' = STATUS_OK /\ pc' = "loop") ]_vars

\* 256 `-' and no `+' were executed on cell 0, which is 0 again.
C9_Witness ==
    /\ 0 \in DOMAIN net
    /\ net[0].valid
    /\ net[0].minus = UCHAR_RANGE
    /\ net[0].plus = 0
    /\ tape.data[0] = 0

\* C10: `>' executed outside skip-mode on the last allocated cell, when the
\* growth succeeds, doubles the capacity, keeps every cell there was, makes
\* every new cell 0 and moves the cursor to its old index plus one.
C10_GrowthKeepsCellsAndCursor ==
    [][ (Executes(TOK_RIGHT) /\ tape.pointer = tape.size - 1
            /\ status' = STATUS_OK) =>
            /\ tape'.size = 2 * tape.size
            /\ DOMAIN tape'.data = 0..(tape'.size - 1)
            /\ \A i \in 0..(tape.size - 1) : tape'.data[i] = tape.data[i]
            /\ \A i \in tape.size..(tape'.size - 1) : tape'.data[i] = 0
            /\ tape'.pointer = tape.pointer + 1
            /\ pc' = "loop" ]_vars

\* The tape has grown twice, and the cells written before each growth hold
\* what was written.
C10_Witness ==
    /\ tape.size = 4 * INITIAL_TAPE_SIZE
    /\ tape.pointer = 2 * INITIAL_TAPE_SIZE
    /\ tape.data[0] = 255
    /\ tape.data[INITIAL_TAPE_SIZE - 1] = 1
    /\ tape.data[INITIAL_TAPE_SIZE] = 255
    /\ tape.data[2 * INITIAL_TAPE_SIZE - 1] = 2
    /\ tape.data[2 * INITIAL_TAPE_SIZE] = 1
    /\ status = STATUS_OK

\* C11: `,' executed outside skip-mode at the end of the input sets the
\* current cell to 0 whatever it held, changes no other cell, returns
\* STATUS_OK and the run goes on; the input stays at its end, so that every
\* later `,' does the same.
C11_InputAtEndStoresZero ==
    [][ (Executes(TOK_INPUT) /\ input_stream = <<>>) =>
            /\ tape' = [tape EXCEPT !.data[tape.pointer] = CELL_VALUE_EOF]
            /\ tape'.data[tape.pointer] = 0
            /\ input_stream' = <<>>
            /\ output_stream' = output_stream
            /\ status' = STATUS_OK
            /\ pc' = "loop" ]_vars

\* The second `,' at the end of the input was executed on a cell that held
\* 255 before the first, and the run goes on.
C11_Witness ==
    /\ file.text = <<"-", ",", ",">>
    /\ fp = 3
    /\ ch = TOK_INPUT
    /\ input_stream = <<>>
    /\ tape.data[0] = 0
    /\ status = STATUS_OK
    /\ ~Done

\* The next character is none of the eight commands, and not the debug
\* command with the debug feature enabled.
ReadsIgnored ==
    /\ pc = "loop"
    /\ fp < Len(prog)
    /\ prog[fp + 1] \notin Commands
    /\ prog[fp + 1] = TOK_DEBUG => ~debug_enabled

\* C12: reading a character that is not one of the eight commands (`#'
\* with the debug feature disabled included) changes neither the tape nor
\* the jump stack nor the input nor the output nor the standard output; the
\* status is STATUS_OK, the run goes on and the read position advances by one.
C12_OtherCharactersIgnored ==
    [][ ReadsIgnored =>
            /\ tape' = tape
            /\ jump_stack' = jump_stack
            /\ input_stream' = input_stream
            /\ output_stream' = output_stream
            /\ stdout_dump' = stdout_dump
            /\ status' = STATUS_OK
            /\ pc' = "loop"
            /\ fp' = fp + 1 ]_vars

\* `#' was read with the debug feature disabled, after a command that
\* changed the tape, and the run goes on.
C12_Witness ==
    /\ ch = TOK_DEBUG
    /\ ~debug_enabled
    /\ tape.data[0] # 0
    /\ fp = 2
    /\ stdout_dump = <<>>
    /\ ~Done

\* C13: while the skip marker is set, each of `>', `<', `+', `-', `.' and
\* `,' returns STATUS_OK and changes nothing: not the tape (cursor, cells,
\* capacity), not the output, not the input, not the jump stack; `<' with
\* the cursor at index 0 included.
C13_SkippedCommandsAreNoOps ==
    [][ (Skipping /\ \E c \in Commands \ {TOK_JUMP_ZERO, TOK_JUMP_NZERO} :
                        Reads(c)) =>
            /\ tape' = tape
            /\ output_stream' = output_stream
            /\ input_stream' = input_stream
            /\ jump_stack' = jump_stack
            /\ status' = STATUS_OK
            /\ pc' = "loop" ]_vars

\* `,' was read in skip-mode with a byte waiting in the input, which is
\* still there.
C13_Witness ==
    /\ Skipping
    /\ ch = TOK_INPUT
    /\ input_stream # <<>>
    /\ tape.data[tape.pointer] = 0
    /\ ~Done

\* C14: the run halts at the first command that fails and returns that
\* command's error.  Inside the loop the status is STATUS_OK; a run that
\* ended at a character ended with the error of the command that character
\* is (the left-boundary error of `<', the allocation error of `>' or `[',
\* the nesting error of `]'); a run that ended at the end of the stream
\* returns STATUS_OK or the nesting error; and after the end nothing
\* changes: no character is read, no byte is input or output.
C14_HaltsAtFirstFailure ==
    /\ [](/\ pc = "loop" => status = STATUS_OK
          /\ (Done /\ ch # EOF) => status # STATUS_OK
          /\ (Done /\ ch = EOF) => status \in {STATUS_OK, STATUS_ERR_NESTING}
          /\ status = STATUS_ERR_LBOUND => ch = TOK_LEFT
          /\ status = STATUS_ERR_ALLOC => ch \in {TOK_RIGHT, TOK_JUMP_ZERO}
          /\ (status = STATUS_ERR_NESTING /\ ch # EOF) => ch = TOK_JUMP_NZERO
          /\ status \in ExecutionStatus)
    /\ [][ pc = "loop" ]_vars
    /\ [][ status' # STATUS_OK => pc' = "done" ]_vars

\* A run has ended with the left-boundary error after it wrote one byte, and
\* the `.' after the failing `<' was never read.
C14_Witness ==
    /\ Done
    /\ file.text = <<".", "<", ".">>
    /\ status = STATUS_ERR_LBOUND
    /\ fp = 2
    /\ output_stream = <<0>>

\* C15: a run that reaches the end of the stream ends there with the
\* nesting error when the jump stack is not empty and with STATUS_OK when it
\* is empty; the programs [[][][[]] and [[]][[] reach the end of the stream
\* and end with the nesting error.
C15_EndOfStreamTestsTheJumpStack ==
    /\ (Done /\ ch = EOF) =>
            /\ fp = Len(prog)
            /\ status = IF jump_stack.pos # 0
                        THEN STATUS_ERR_NESTING
                        ELSE STATUS_OK
    /\ (Done /\ file.name \in {"improper_nesting_1", "improper_nesting_2"}) =>
            (ch = EOF /\ status = STATUS_ERR_NESTING)

\* The program [[]][[] has ended at the end of the stream with one entry
\* left on the jump stack.
C15_Witness ==
    /\ Done
    /\ prog = PROG_improper_nesting_2
    /\ ch = EOF
    /\ jump_stack.pos = 1
    /\ status = STATUS_ERR_NESTING

\* C16, as stated: the program ends with STATUS_OK and the output
\* `Hello World!'.
C16_Original ==
    (Done /\ file.name = "hello_world_2") =>
        /\ status = STATUS_OK
        /\ output_stream =
               <<72, 101, 108, 108, 111, 32, 87, 111, 114, 108, 100, 33>>

\* C16, amended: the program ends with STATUS_OK and the output
\* `Hello World !': its last two `.' print the cell that holds the space
\* before and after the `+' that makes it the exclamation mark.
C16_HelloWorldOutput ==
    (Done /\ file.name = "hello_world_2") =>
        /\ status = STATUS_OK
        /\ ch = EOF
        /\ output_stream =
               <<72, 101, 108, 108, 111, 32, 87, 111, 114, 108, 100, 32, 33>>

\* The program has ended, with 13 bytes written.
C16_Witness ==
    /\ Done
    /\ prog = PROG_hello_world_2
    /\ status = STATUS_OK
    /\ Len(output_stream) = 13
    /\ output_stream[12] = 32

\* C17: outside skip-mode `,' takes the first byte of the input, stores it
\* in the current cell and changes no other cell; `.' appends the byte of
\* the current cell to the output and changes neither the tape nor the
\* input; both return STATUS_OK.  The program ,.,.,,.>,. fed Y, newline, &,
\* ?, . ends with STATUS_OK and the output Y, newline, ?, .
C17_InputAndOutputMoveOneByte ==
    /\ [][ (Executes(TOK_INPUT) /\ input_stream # <<>>) =>
              /\ tape' = [tape EXCEPT !.data[tape.pointer] = Head(input_stream)]
              /\ input_stream' = Tail(input_stream)
              /\ output_stream' = output_stream
              /\ status' = STATUS_OK ]_vars
    /\ [][ Executes(TOK_OUTPUT) =>
              /\ output_stream' = Append(output_stream, tape.data[tape.pointer])
              /\ tape' = tape
              /\ input_stream' = input_stream
              /\ status' = STATUS_OK ]_vars
    /\ []((Done /\ file.name = "input") =>
              /\ status = STATUS_OK
              /\ output_stream = <<89, 10, 63, 46>>
              /\ input_stream = <<>>)

\* The program ,.,.,,.>,. has ended; the third byte of its input was
\* overwritten by the fourth and the fifth is in the next cell.
C17_Witness ==
    /\ Done
    /\ prog = PROG_input
    /\ output_stream = <<89, 10, 63, 46>>
    /\ tape.data[0] = 63
    /\ tape.data[1] = 46
    /\ status = STATUS_OK

(***************************************************************************)
(* The counting loop: n times `+', then [>+<-].                            *)
(***************************************************************************)
COUNTING_LOOP == <<"[", ">", "+", "<", "-", "]">>
CountingProgram(n) == Repeat("+", n) \o COUNTING_LOOP

\* One run per value a cell can hold, with no input.
CountRuns ==
    {[file |-> [name |-> "", text |-> CountingProgram(n)], input |-> <<>>,
      debug_enabled |-> FALSE] : n \in 0..(UCHAR_RANGE - 1)}

\* The state after the initialization, for one of the runs given.
InitOf(runs) ==
    /\ \E r \in runs :
        /\ file = r.file
        /\ debug_enabled = r.debug_enabled
        /\ input_stream = r.input
        /\ ref = RefInit(r.input)
        /\ brackets = Brackets(FileText(r.file))
    /\ output_stream = <<>>
    /\ stdout_dump = <<>>
    /\ fp = 0
    /\ pos = 0
    /\ ch = "none"
    /\ status = STATUS_OK
    /\ tape = init_tape
    /\ jump_stack = init_jump_stack
    /\ pc = "loop"
    /\ net = <<>>
    /\ main = test_interpreter
    /\ heap = execute_init(TRUE, TRUE).heap

CountInit == InitOf(CountRuns)

\* The iterations of the loop that a counting program can take.
CountNext ==
    \/ StepRight
    \/ StepLeft
    \/ StepIncrement
    \/ StepDecrement
    \/ StepJumpZero
    \/ StepJumpNotZero
    \/ EndOfStream

\* The interpreter is one sequential loop: while an iteration can be taken,
\* the next one is taken.
SpecCount == CountInit /\ [][CountNext]_vars /\ WF_vars(CountNext)

\* The number of `+' before the counting loop.
CountOf == Len(prog) - Len(COUNTING_LOOP)

\* C18: for every n in 0..255 the program of n `+' followed by [>+<-]
\* terminates, with STATUS_OK, cell 0 equal to 0 and cell 1 equal to n.
\* Whenever the `[' is about to be read the two cells add up to n, and at
\* the end exactly n `+' and no `-' were executed on cell 1: the body ran
\* once per unit of the counter, and not at all when n = 0.
C18_CountingLoop ==
    /\ <>Done
    /\ [](Done =>
            /\ status = STATUS_OK
            /\ ch = EOF
            /\ tape.pointer = 0
            /\ tape.data[0] = 0
            /\ tape.data[1] = CountOf
            /\ NetOf(1) = [plus |-> CountOf, minus |-> 0, valid |-> TRUE])
    /\ []((pc = "loop" /\ fp = CountOf) =>
            /\ tape.pointer = 0
            /\ tape.data[0] + tape.data[1] = CountOf)
    /\ []((CountOf = 0 /\ fp > 0 /\ fp < Len(prog)) => Skipping)

\* The program of 255 `+' and the counting loop has ended.
C18_Witness ==
    /\ Done
    /\ CountOf = UCHAR_RANGE - 1
    /\ tape.data[0] = 0
    /\ tape.data[1] = UCHAR_RANGE - 1
    /\ status = STATUS_OK

\* The short programs run with no input and without --debug, under the one
\* assumption that the sequential loop takes its next iteration while it
\* can.
LoopRuns == {r \in ShortRuns : r.input = <<>> /\ ~r.debug_enabled}
LoopInit == InitOf(LoopRuns)
SpecLoop == LoopInit /\ [][Next]_vars /\ WF_vars(Next)

\* The `]' about to be read is executed with a non-zero cell and an entry on
\* the jump stack.
ClosesOnNonZero ==
    /\ Executes(TOK_JUMP_NZERO)
    /\ jump_stack.pos # 0
    /\ tape.data[tape.pointer] # 0

\* C19: a `]' executed with a non-zero cell moves the read position back
\* to the bookmark of its `[', leaves the tape as it is and goes on with
\* STATUS_OK; the programs +[] and -[], whose cell is non-zero at every `]',
\* never terminate: the loop is never left, and again and again the `]' is
\* about to be executed.
C19_NonZeroLoopRunsForever ==
    /\ [][ ClosesOnNonZero =>
              /\ fp' = jump_stack.data[jump_stack.pos]
              /\ fp' < fp
              /\ prog[fp' + 1] = TOK_JUMP_ZERO
              /\ tape' = tape
              /\ status' = STATUS_OK
              /\ pc' = "loop" ]_vars
    /\ [](file.text \in {<<"+", "[", "]">>, <<"-", "[", "]">>} =>
              (~Done /\ status = STATUS_OK))
    /\ [](file.text \in {<<"+", "[", "]">>, <<"-", "[", "]">>} =>
              <>ClosesOnNonZero)

\* +[] is about to execute its `]': the state the run is in before every
\* rewind, the first and each later one.
C19_Witness ==
    /\ file.text = <<"+", "[", "]">>
    /\ ch = TOK_JUMP_ZERO
    /\ pos = 2
    /\ ClosesOnNonZero
    /\ jump_stack.data[jump_stack.pos] = 1

\* C20: a step that reads `>' or `<' changes no cell of the tape, whether
\* it moves, fails, is skipped or makes the tape grow; and a step changes a
\* cell only if it executes `+', `-' or `,' with the cursor on that cell.
\* So a cell the cursor left holds, when the cursor returns, the value it
\* had, unless one of the three was executed on it.
C20_MovesKeepCells ==
    /\ [][ (Reads(TOK_RIGHT) \/ Reads(TOK_LEFT)) =>
              \/ tape'.data = tape.data
              \/ /\ DOMAIN tape.data \subseteq DOMAIN tape'.data
                 /\ [i \in DOMAIN tape.data |-> tape'.data[i]] = tape.data ]_vars
    /\ [][ \/ tape'.data = tape.data
           \/ /\ \/ Executes(TOK_INCREMENT)
                 \/ Executes(TOK_DECREMENT)
                 \/ Executes(TOK_INPUT)
              /\ tape'.data =
                     [tape.data EXCEPT ![tape.pointer] = tape'.data[tape.pointer]]
           \/ /\ DOMAIN tape.data \subseteq DOMAIN tape'.data
              /\ [i \in DOMAIN tape.data |-> tape'.data[i]] = tape.data ]_vars

\* The cursor left the last cell of the first allocation, which held 1, the
\* tape grew, and the cursor is back on that cell: it holds 1, and the first
\* cell holds the 255 it was left with.
C20_Witness ==
    /\ prog = PROG_walk_back
    /\ ch = TOK_LEFT
    /\ tape.size = 2 * INITIAL_TAPE_SIZE
    /\ tape.pointer = INITIAL_TAPE_SIZE - 1
    /\ tape.data[tape.pointer] = 1
    /\ tape.data[0] = 255

(***************************************************************************)
(* The process: main parses the command line, opens the streams, calls     *)
(* execute_brainfuck_from_stream and exits.                                *)
(***************************************************************************)
\* The command lines: options, each with its value, then the file
\* arguments.
OptionItems ==
    {<<OPTION_DEBUG>>, <<OPTION_HELP>>, <<OPTION_VERSION>>,
     <<OPTION_INPUT, FILE_IN>>, <<OPTION_INPUT, FILE_MISSING>>,
     <<OPTION_OUTPUT, FILE_OUT>>, <<OPTION_OUTPUT, FILE_READ_ONLY>>}
RECURSIVE Concat(_)
Concat(ss) == IF ss = <<>> THEN <<>> ELSE Head(ss) \o Concat(Tail(ss))
MainPrograms ==
    {"left_bound", "improper_nesting_2", "input", "deep_skip", "debugging"}
PROGRAM_MISSING == "nofile.bf"
FileArguments ==
    {<<>>, <<PROGRAM_MISSING>>, <<"input", "input">>}
        \cup {<<f>> : f \in MainPrograms}
CommandLines ==
    {Concat(o) \o q :
        o \in UNION {[1..n -> OptionItems] : n \in 0..MaxOptions},
        q \in FileArguments}

\* The variables of execute_brainfuck_from_stream.
exec_vars == <<file, debug_enabled, input_stream, output_stream, stdout_dump,
               fp, pos, ch, status, tape, jump_stack, pc, brackets, ref, net,
               heap>>

MainInit ==
    /\ \E a \in CommandLines :
         main = [pc |-> "options", argv |-> a, index |-> 0,
                 config |-> [input_file |-> NO_NAME, output_file |-> NO_NAME,
                             debug_enabled |-> FALSE],
                 input_stream |-> UNINIT_STREAM,
                 output_stream |-> UNINIT_STREAM,
                 fp |-> UNINIT_STREAM, error_msg |-> NO_NAME,
                 exit |-> "running", code |-> EXIT_SUCCESS,
                 stderr |-> <<>>, stdout |-> <<>>, fs |-> FileSystem]
    /\ file = [name |-> "", text |-> <<>>]
    /\ debug_enabled = FALSE
    /\ input_stream = <<>>
    /\ ref = RefInit(<<>>)
    /\ brackets = Brackets(<<>>)
    /\ output_stream = <<>>
    /\ stdout_dump = <<>>
    /\ fp = 0
    /\ pos = 0
    /\ ch = "none"
    /\ status = STATUS_OK
    /\ tape = init_tape
    /\ jump_stack = init_jump_stack
    /\ pc = "main"
    /\ net = <<>>
    /\ heap = NO_STORAGE

\* exit, or the return from main: the output stream is flushed.
Flushed(m, out) ==
    IF m.output_stream \in DOMAIN m.fs
    THEN [m.fs EXCEPT ![m.output_stream].bytes = out]
    ELSE m.fs

\* goto error with the message msg: the cleanup tests input_stream,
\* output_stream and fp, and exit_with_error prints the message and exits
\* with EXIT_FAILURE.  A stream that was never assigned has an
\* indeterminate value: the cleanup may pass it to fclose and crash.
ErrorExits(m, msg) ==
    {[m EXCEPT !.pc = "exit", !.error_msg = msg, !.exit = "exited",
               !.code = EXIT_FAILURE, !.stderr = Append(@, msg),
               !.fs = Flushed(m, <<>>)]}
    \cup IF UNINIT_STREAM \in {m.input_stream, m.output_stream, m.fp}
         THEN {[m EXCEPT !.pc = "exit", !.error_msg = msg,
                         !.exit = "crashed"]}
         ELSE {}

\* One iteration of while (cag_option_fetch(&context)).
FetchOption ==
    /\ main.pc = "options"
    /\ main.index < Len(main.argv)
    /\ main.argv[main.index + 1] \in Options
    /\ LET identifier == main.argv[main.index + 1]
           has_value == identifier \in {OPTION_INPUT, OPTION_OUTPUT}
           value == IF has_value THEN main.argv[main.index + 2] ELSE NO_NAME
       IN  main' =
             IF identifier = OPTION_HELP
             THEN [main EXCEPT !.pc = "exit", !.exit = "exited",
                               !.code = EXIT_SUCCESS,
                               !.stdout = Append(@, "Usage: maxbf [OPTIONS] FILE")]
             ELSE IF identifier = OPTION_VERSION
             THEN [main EXCEPT !.pc = "exit", !.exit = "exited",
                               !.code = EXIT_SUCCESS,
                               !.stdout = Append(@, "MaxBF version")]
             ELSE [main EXCEPT
                     !.config = main_option(@, identifier, value),
                     !.index = @ + (IF has_value THEN 2 ELSE 1)]
    /\ UNCHANGED exec_vars

\* The options are parsed: set the input and output streams.
SetStreams ==
    /\ main.pc = "options"
    /\ IF main.index < Len(main.argv)
       THEN main.argv[main.index + 1] \notin Options
       ELSE TRUE
    /\ LET config == main.config
           in_ok == config.input_file = NO_NAME \/ CanRead(main.fs, config.input_file)
           with_in == [main EXCEPT !.input_stream =
                          IF config.input_file = NO_NAME THEN "stdin"
                          ELSE IF in_ok THEN config.input_file
                          ELSE NO_STREAM]
           out_ok == config.output_file = NO_NAME
                        \/ CanWrite(main.fs, config.output_file)
           with_out == [with_in EXCEPT
                          !.output_stream =
                              IF config.output_file = NO_NAME THEN "stdout"
                              ELSE IF out_ok THEN config.output_file
                              ELSE NO_STREAM,
                          !.fs = IF config.output_file # NO_NAME /\ out_ok
                                 THEN Truncated(@, config.output_file)
                                 ELSE @]
       IN  IF ~in_ok
           THEN main' \in ErrorExits(with_in, "Could not open input file.")
           ELSE IF ~out_ok
           THEN main' \in ErrorExits(with_out, "Could not open output file.")
           ELSE main' = [with_out EXCEPT !.pc = "file"]
    /\ UNCHANGED exec_vars

\* Parse the file parameter, open the program and call
\* execute_brainfuck_from_stream, which initializes its tape and jump stack.
OpenProgram ==
    /\ main.pc = "file"
    /\ LET file_index == main.index
           argc == Len(main.argv)
       IN  IF file_index >= argc
           THEN /\ main' \in ErrorExits(main,
                                "Please specify brainfuck program file.")
                /\ UNCHANGED exec_vars
           ELSE IF file_index < argc - 1
           THEN /\ main' \in ErrorExits(main,
                                "Too many file arguments specified.")
                /\ UNCHANGED exec_vars
           ELSE IF main.argv[file_index + 1] \notin FileNames
           THEN /\ main' \in ErrorExits([main EXCEPT !.fp = NO_STREAM],
                                "Could not open brainfuck program file.")
                /\ UNCHANGED exec_vars
           ELSE LET name == main.argv[file_index + 1]
                    in == IF main.input_stream = "stdin" THEN BYTES_stdin
                          ELSE main.fs[main.input_stream].bytes
                IN  /\ main' = [main EXCEPT !.pc = "execute", !.fp = name]
                    /\ file' = [name |-> name, text |-> <<>>]
                    /\ debug_enabled' = main.config.debug_enabled
                    /\ input_stream' = in
                    /\ ref' = RefInit(in)
                    /\ brackets' = Brackets(FileText(file'))
                    /\ output_stream' = <<>>
                    /\ stdout_dump' = <<>>
                    /\ fp' = 0
                    /\ pos' = 0
                    /\ ch' = "none"
                    /\ \E calloc_ok, malloc_ok \in BOOLEAN :
                         LET r == execute_init(calloc_ok, malloc_ok)
                         IN  /\ status' = r.status
                             /\ tape' = r.tape
                             /\ jump_stack' = r.jump_stack
                             /\ heap' = r.heap
                             /\ pc' = IF r.returned THEN "done" ELSE "loop"
                    /\ net' = <<>>

\* The switch over the status returned, the cleanup and the exit.
MainExit ==
    /\ main.pc = "execute"
    /\ pc = "done"
    /\ LET r == main_status(status)
       IN  main' = [main EXCEPT
                      !.pc = "exit", !.exit = "exited", !.code = r.code,
                      !.stderr = IF r.msg = NO_NAME THEN @ ELSE Append(@, r.msg),
                      !.fs = Flushed(main, output_stream)]
    /\ UNCHANGED exec_vars

MainNext ==
    \/ FetchOption
    \/ SetStreams
    \/ OpenProgram
    \/ StepRight
    \/ StepLeft
    \/ StepIncrement
    \/ StepDecrement
    \/ StepOutput
    \/ StepInput
    \/ StepJumpZero
    \/ StepJumpNotZero
    \/ StepDebug
    \/ StepIgnore
    \/ EndOfStream
    \/ MainExit

SpecMain == MainInit /\ [][MainNext]_vars

\* main has called execute_brainfuck_from_stream: the three files were
\* opened.
Called == main.fp \in FileNames

\* C21: once the program, input and output files are open, the process
\* does not exit before execute_brainfuck_from_stream returns; it then exits
\* with EXIT_SUCCESS and no message exactly when the status is STATUS_OK,
\* and with EXIT_FAILURE and the one message of the error otherwise, a
\* different message for each of the three errors.
C21_ExitFollowsStatus ==
    /\ (Called /\ main.pc = "execute") => main.exit = "running"
    /\ (Called /\ main.pc = "exit") =>
          /\ pc = "done"
          /\ main.exit = "exited"
          /\ main.code = EXIT_SUCCESS <=> status = STATUS_OK
          /\ main.code = EXIT_FAILURE <=> status # STATUS_OK
          /\ status = STATUS_OK => main.stderr = <<>>
          /\ status = STATUS_ERR_ALLOC =>
                main.stderr = <<"Error while allocating memory.">>
          /\ status = STATUS_ERR_LBOUND =>
                main.stderr = <<"The program went past the start of the tape.">>
          /\ status = STATUS_ERR_NESTING =>
                main.stderr = <<"Improperly nested jumps [ and ].">>

\* The process has exited with failure after a nesting error.
C21_Witness ==
    /\ Called
    /\ main.pc = "exit"
    /\ main.argv = <<"improper_nesting_2">>
    /\ status = STATUS_ERR_NESTING
    /\ main.code = EXIT_FAILURE
    /\ main.stderr = <<"Improperly nested jumps [ and ].">>

\* C22, as stated: when the command line holds no -d, debug_enabled is
\* false when the loop starts and `#' prints nothing.
C22_Original ==
    (Called /\ OPTION_DEBUG \notin Chars(main.argv)) =>
        (~debug_enabled /\ stdout_dump = <<>>)

\* C23, as stated: with -i FILE and no -o the output stream is standard
\* output, and with -o FILE and no -i the input stream is standard input.
C23_Original ==
    /\ (Called /\ OPTION_INPUT \in Chars(main.argv)
               /\ OPTION_OUTPUT \notin Chars(main.argv)) =>
            main.output_stream = "stdout"
    /\ (Called /\ OPTION_OUTPUT \in Chars(main.argv)
               /\ OPTION_INPUT \notin Chars(main.argv)) =>
            main.input_stream = "stdin"

\* The number of `[' minus the number of `]' in the n first characters of
\* the program.
NestingDepth(n) ==
    Cardinality({i \in 1..n : prog[i] = TOK_JUMP_ZERO})
        - Cardinality({i \in 1..n : prog[i] = TOK_JUMP_NZERO})

\* C24: while the loop runs, between two commands, the number of entries on
\* the jump stack is the number of `[' minus the number of `]' in the text
\* before the read position, in skip-mode or not, after a rewind or not.
C24_DepthIsNestingDepth ==
    pc = "loop" => jump_stack.pos = NestingDepth(fp)

\* A `]' has moved the read position back to its `[', at nesting depth 0,
\* after a pass of the loop body.
C24_Witness ==
    /\ prog = PROG_small_loops
    /\ pc = "loop"
    /\ ch = TOK_JUMP_NZERO
    /\ fp = 2
    /\ output_stream = <<1>>
    /\ jump_stack.pos = 0

\* C25: a skip marker that is set is the index of an entry on the jump
\* stack, from 1 to the depth; with an empty stack it is not set.
C25_SkipMarkerOnStack ==
    /\ jump_stack.skip_pos # NULL =>
          (1 <= jump_stack.skip_pos /\ jump_stack.skip_pos <= jump_stack.pos)
    /\ jump_stack.pos = 0 => jump_stack.skip_pos = NULL

\* The stack has grown in skip-mode, and the marker is still the first
\* entry.
C25_Witness ==
    /\ prog = PROG_deep_skip
    /\ jump_stack.size = 2 * INITIAL_JUMP_STACK_SIZE
    /\ jump_stack.pos = INITIAL_JUMP_STACK_SIZE
    /\ jump_stack.skip_pos = 1

\* C26, as stated: the bookmark a `[' pushes is the position following
\* that `['.
C26_Original ==
    (pc = "loop" /\ ch = TOK_JUMP_ZERO) =>
        jump_stack.data[jump_stack.pos] = fp

\* C26, amended: each bookmark on the jump stack is the position of a `['
\* itself, the position before it is read, and the bookmarks are in the
\* order of the text; the bookmark a `[' pushed is the position before that
\* `['; and after a rewind the next character read is the `[', which is
\* read and pushed again.
C26_BookmarkIsBeforeBracket ==
    /\ \A k \in 1..jump_stack.pos :
          /\ jump_stack.data[k] \in 0..(Len(prog) - 1)
          /\ prog[jump_stack.data[k] + 1] = TOK_JUMP_ZERO
          /\ k > 1 => jump_stack.data[k - 1] < jump_stack.data[k]
    /\ (pc = "loop" /\ ch = TOK_JUMP_ZERO) =>
          jump_stack.data[jump_stack.pos] = fp - 1
    /\ (pc = "loop" /\ ch = TOK_JUMP_NZERO
           /\ tape.data[tape.pointer] # 0) =>
          (fp < Len(prog) /\ prog[fp + 1] = TOK_JUMP_ZERO)

\* The inner `[' of a loop in a loop was pushed: two bookmarks, each the
\* position before its `['.
C26_Witness ==
    /\ prog = PROG_deep_loop
    /\ ch = TOK_JUMP_ZERO
    /\ ~Skipping
    /\ fp = 3
    /\ jump_stack.pos = 2
    /\ jump_stack.data[1] = 1
    /\ jump_stack.data[2] = 2

\* C27: a `[' executed outside skip-mode whose push succeeds leaves one
\* more entry on the stack, sets the skip marker to that entry when the
\* current cell is 0 and leaves it unset otherwise; the tape and the cursor
\* are unchanged, also when the push fails.
C27_OpenOutsideSkipMode ==
    [][ Executes(TOK_JUMP_ZERO) =>
          /\ tape' = tape
          /\ status' = STATUS_OK =>
                /\ jump_stack'.pos = jump_stack.pos + 1
                /\ jump_stack'.skip_pos =
                      IF tape.data[tape.pointer] = 0
                      THEN jump_stack'.pos
                      ELSE NULL
                /\ \A k \in 1..jump_stack.pos :
                      jump_stack'.data[k] = jump_stack.data[k] ]_vars

\* A `[' inside a loop that runs found the cell 0 and set the marker to its
\* own entry, the second.
C27_Witness ==
    /\ prog = PROG_inner_skip
    /\ ch = TOK_JUMP_ZERO
    /\ fp = 4
    /\ jump_stack.pos = 2
    /\ jump_stack.skip_pos = 2
    /\ tape.data[tape.pointer] = 0

\* C28: a `[' read in skip-mode whose push succeeds leaves one more entry
\* on the stack and the skip marker on the same entry as before.
C28_OpenInSkipMode ==
    [][ (Skipping /\ Reads(TOK_JUMP_ZERO)) =>
          /\ tape' = tape
          /\ status' = STATUS_OK =>
                /\ jump_stack'.pos = jump_stack.pos + 1
                /\ jump_stack'.skip_pos = jump_stack.skip_pos
                /\ jump_stack'.skip_pos # jump_stack'.pos ]_vars

\* The inner `[' of [This: < and this [<] ...] was read in skip-mode.
C28_Witness ==
    /\ prog = PROG_bracket_skipping
    /\ ch = TOK_JUMP_ZERO
    /\ jump_stack.pos = 2
    /\ jump_stack.skip_pos = 1
    /\ tape.data[tape.pointer] = 0

\* C29: a `]' read with an entry on the stack clears the skip marker
\* exactly when the marker is the top entry, pops one entry, and sets the
\* read position to the popped bookmark exactly when the current cell is
\* not 0; otherwise reading goes on after the `]'.
C29_CloseWithEntry ==
    [][ (Reads(TOK_JUMP_NZERO) /\ jump_stack.pos # 0) =>
          /\ status' = STATUS_OK
          /\ tape' = tape
          /\ jump_stack'.skip_pos =
                IF jump_stack.skip_pos = jump_stack.pos
                THEN NULL
                ELSE jump_stack.skip_pos
          /\ jump_stack'.pos = jump_stack.pos - 1
          /\ fp' = IF tape.data[tape.pointer] # 0
                   THEN jump_stack.data[jump_stack.pos]
                   ELSE fp + 1 ]_vars

\* A `]' was read in skip-mode with the marker below the top: one entry
\* was popped and the marker is still set.
C29_Witness ==
    /\ prog = PROG_bracket_skipping
    /\ ch = TOK_JUMP_NZERO
    /\ Skipping
    /\ jump_stack.pos = 1
    /\ jump_stack.skip_pos = 1

\* C30: whenever the skip marker is set the current cell is 0, and a `]'
\* read in skip-mode leaves the read position after itself.
C30_SkipModeCellIsZero ==
    /\ [](Skipping => tape.data[tape.pointer] = 0)
    /\ [][ (Skipping /\ Reads(TOK_JUMP_NZERO)) => fp' = fp + 1 ]_vars

\* The `]' that closes the skipped loop [[-]+.<] was read: the marker is
\* cleared and reading goes on after it.
C30_Witness ==
    /\ prog = PROG_nested_skip
    /\ ch = TOK_JUMP_NZERO
    /\ ~Skipping
    /\ fp = 8
    /\ jump_stack.pos = 0
    /\ pc = "loop"

(***************************************************************************)
(* Runs that end: the short programs and the test programs that hold       *)
(* skipped loops, deep nesting or a walk past the end of the allocation,   *)
(* under the assumption that the sequential loop takes its next iteration  *)
(* while it can.                                                           *)
(***************************************************************************)
EndRuns ==
    LoopRuns \cup
    {r \in TestRuns :
        /\ ~r.debug_enabled
        /\ r.file.name \in {"deep_skip", "bracket_skipping", "nested_skip",
                            "inner_skip", "walk_back", "left_bound",
                            "ignore_characters", "improper_nesting_1"}}
EndInit == InitOf(EndRuns)
SpecEnds == EndInit /\ [][Next]_vars /\ WF_vars(Next)

\* The index in the text of the `[' that set the skip marker.
SkipBracket == jump_stack.data[jump_stack.skip_pos] + 1

\* C31 as stated: a run that terminates in skip-mode terminates with the
\* nesting error at the end of the stream.
C31_Original ==
    (Skipping /\ Done) => (status = STATUS_ERR_NESTING /\ ch = EOF)

\* C31: in skip-mode every character read moves the read position one
\* character forward, so skip-mode lasts at most as many iterations as
\* there are characters left; the marker is cleared by the `]' that matches
\* the `[' that set it and by nothing else; and skip-mode always ends: the
\* marker is cleared, or the run terminates, with the nesting error at the
\* end of the stream or with the allocation error of a `[' whose push could
\* not grow the jump stack.
C31_SkipModeEnds ==
    /\ [][ (Skipping /\ pc = "loop") =>
              \/ /\ fp < Len(prog)
                 /\ fp' = fp + 1
              \/ /\ fp = Len(prog)
                 /\ fp' = fp
                 /\ pc' = "done"
                 /\ status' = STATUS_ERR_NESTING ]_vars
    /\ [][ (Skipping /\ ~Skipping') =>
              /\ Reads(TOK_JUMP_NZERO)
              /\ fp + 1 = brackets.match[SkipBracket]
              /\ pc' = "loop" ]_vars
    /\ [](Skipping => fp <= Len(prog))
    /\ Skipping ~> (~Skipping \/ Done)
    /\ []((Skipping /\ Done) =>
              \/ /\ status = STATUS_ERR_NESTING
                 /\ ch = EOF
                 /\ fp = Len(prog)
              \/ /\ status = STATUS_ERR_ALLOC
                 /\ ch = TOK_JUMP_ZERO
                 /\ jump_stack.pos = jump_stack.size \div 2 - 1)

\* The hundred `[' of the deep program were read in skip-mode, the jump
\* stack grew on the way, and the last `]' has cleared the marker that the
\* first `[' had set.
C31_Witness ==
    /\ prog = PROG_deep_skip
    /\ ch = TOK_JUMP_NZERO
    /\ fp = Len(prog)
    /\ pc = "loop"
    /\ ~Skipping
    /\ jump_stack.pos = 0
    /\ jump_stack.size = 2 * INITIAL_JUMP_STACK_SIZE

\* The program has no `[' and no `]'.
NoBrackets ==
    /\ TOK_JUMP_ZERO \notin Chars(prog)
    /\ TOK_JUMP_NZERO \notin Chars(prog)

\* C32: in a program without `[' and `]' every iteration reads the
\* character after the one read before it, so each character is read at
\* most once and in the order of the text, and the run terminates, after at
\* most as many iterations as the text has characters: with STATUS_OK at
\* the end of the stream, with the left-boundary error at a `<' or with the
\* allocation error at a `>', and never with the nesting error.
C32_StraightLineTerminates ==
    /\ [][ (NoBrackets /\ pc = "loop") =>
              \/ /\ fp < Len(prog)
                 /\ fp' = fp + 1
                 /\ ch' = prog[fp + 1]
              \/ /\ fp = Len(prog)
                 /\ fp' = fp
                 /\ ch' = EOF
                 /\ pc' = "done" ]_vars
    /\ [](NoBrackets => fp <= Len(prog))
    /\ [](NoBrackets => <>Done)
    /\ []((NoBrackets /\ Done) =>
              /\ status \in {STATUS_OK, STATUS_ERR_LBOUND, STATUS_ERR_ALLOC}
              /\ status = STATUS_OK => (ch = EOF /\ fp = Len(prog))
              /\ status = STATUS_ERR_LBOUND => ch = TOK_LEFT
              /\ status = STATUS_ERR_ALLOC => ch = TOK_RIGHT)

\* The walk to the last cell of the allocation has ended at the `>' that
\* makes the tape grow, with the allocation error, one character before the
\* end of the text.
C32_Witness ==
    /\ prog = PROG_walk_back
    /\ NoBrackets
    /\ Done
    /\ status = STATUS_ERR_ALLOC
    /\ ch = TOK_RIGHT
    /\ fp = Len(prog) - 1

\* C33 as stated: when the realloc that `>' needs fails, tape_move_right
\* returns STATUS_ERR_ALLOC and the tape is as before the call: its cells,
\* its recorded size and its cursor.
C33_Original ==
    [][ (Executes(TOK_RIGHT) /\ status' = STATUS_ERR_ALLOC) =>
            /\ tape'.data = tape.data
            /\ tape'.size = tape.size
            /\ tape'.pointer = tape.pointer ]_vars

\* C34 as stated: when the realloc that a push needs fails, jump_stack_push
\* returns STATUS_ERR_ALLOC and the jump stack is as before the call: its
\* bookmarks, its depth, its skip marker and its recorded size.
C34_Original ==
    [][ (Reads(TOK_JUMP_ZERO) /\ status' = STATUS_ERR_ALLOC) =>
            /\ jump_stack'.data = jump_stack.data
            /\ jump_stack'.pos = jump_stack.pos
            /\ jump_stack'.skip_pos = jump_stack.skip_pos
            /\ jump_stack'.size = jump_stack.size ]_vars

\* The `[' about to be read makes the jump stack grow.
PushGrows ==
    /\ Reads(TOK_JUMP_ZERO)
    /\ jump_stack.pos = jump_stack.size - 1

\* The entries 1..n of the jump stack s.
Bookmarks(s, n) == [k \in 1..n |-> s.data[k]]

\* C35: a push that makes the jump stack grow, when the growth succeeds,
\* doubles the size, keeps every bookmark of the stack at its index, puts
\* the new bookmark on top of them, at the old depth plus one, and leaves a
\* skip marker that was set on the index it was on; and after a growth the
\* `]' read with the marker on the top entry still clears it.
C35_GrowthKeepsStackAndMarker ==
    /\ [][ (PushGrows /\ status' = STATUS_OK) =>
              /\ jump_stack'.size = 2 * jump_stack.size
              /\ jump_stack'.pos = jump_stack.pos + 1
              /\ Bookmarks(jump_stack', jump_stack.pos)
                    = Bookmarks(jump_stack, jump_stack.pos)
              /\ jump_stack'.data[jump_stack'.pos] = pos
              /\ Skipping => jump_stack'.skip_pos = jump_stack.skip_pos ]_vars
    /\ [][ ( /\ jump_stack.size > INITIAL_JUMP_STACK_SIZE
             /\ Reads(TOK_JUMP_NZERO)
             /\ Skipping
             /\ jump_stack.skip_pos = jump_stack.pos ) => ~Skipping' ]_vars
    /\ [](Skipping => jump_stack.skip_pos \in 1..jump_stack.pos)

\* The jump stack of the deep program grew in skip-mode at the hundredth
\* `[', and the first `]' after it has popped the entry that the growth
\* added: the marker is still on the first entry.
C35_Witness ==
    /\ prog = PROG_deep_skip
    /\ ch = TOK_JUMP_NZERO
    /\ fp = INITIAL_JUMP_STACK_SIZE + 1
    /\ jump_stack.size = 2 * INITIAL_JUMP_STACK_SIZE
    /\ jump_stack.pos = INITIAL_JUMP_STACK_SIZE - 1
    /\ jump_stack.skip_pos = 1
    /\ jump_stack.data[1] = 0
    /\ jump_stack.data[jump_stack.pos] = INITIAL_JUMP_STACK_SIZE - 2

(***************************************************************************)
(* The call of execute_brainfuck_from_stream from its first statement: the *)
(* allocation of the tape and of the jump stack can fail.                  *)
(***************************************************************************)
\* The state at the call, before init_tape.
CallInit ==
    /\ \E r \in EndRuns :
        /\ file = r.file
        /\ debug_enabled = r.debug_enabled
        /\ input_stream = r.input
        /\ ref = RefInit(r.input)
        /\ brackets = Brackets(FileText(r.file))
    /\ output_stream = <<>>
    /\ stdout_dump = <<>>
    /\ fp = 0
    /\ pos = 0
    /\ ch = "none"
    /\ status = STATUS_OK
    /\ tape = NO_TAPE
    /\ jump_stack = NO_JUMP_STACK
    /\ pc = "call"
    /\ net = <<>>
    /\ main = test_interpreter
    /\ heap = NO_STORAGE

\* init_tape and init_jump_stack, each of which can fail, then fgetpos and
\* status = STATUS_OK.
Enter ==
    /\ pc = "call"
    /\ \E calloc_ok, malloc_ok \in BOOLEAN :
         LET r == execute_init(calloc_ok, malloc_ok)
         IN  /\ status' = r.status
             /\ tape' = r.tape
             /\ jump_stack' = r.jump_stack
             /\ heap' = r.heap
             /\ pc' = IF r.returned THEN "done" ELSE "loop"
    /\ UNCHANGED <<file, debug_enabled, input_stream, output_stream,
                   stdout_dump, fp, pos, ch, brackets, ref, net, main>>

CallNext ==
    \/ Enter
    \/ StepRight
    \/ StepLeft
    \/ StepIncrement
    \/ StepDecrement
    \/ StepOutput
    \/ StepInput
    \/ StepJumpZero
    \/ StepJumpNotZero
    \/ StepDebug
    \/ StepIgnore
    \/ EndOfStream

SpecCall == CallInit /\ [][CallNext]_vars

\* The block b was released as many times as it was allocated: once if the
\* allocation gave it, never if it did not.
ReleasedOnce(b) == b.freed = IF b.allocated THEN 1 ELSE 0

\* C36: when execute_brainfuck_from_stream has returned, whatever the path
\* (the end of the stream, an error status of a command, the nesting error
\* at the end of the stream, a tape or a jump stack that could not be
\* allocated, a growth that failed), the storage of the tape and the storage
\* of the jump stack were each released exactly once if they were allocated
\* and never if they were not; before the return nothing is released, and
\* the loop runs with both allocated.
C36_StorageReleasedOnce ==
    /\ Done => (ReleasedOnce(heap.tape) /\ ReleasedOnce(heap.jump_stack))
    /\ ~Done => (heap.tape.freed = 0 /\ heap.jump_stack.freed = 0)
    /\ pc = "loop" => (heap.tape.allocated /\ heap.jump_stack.allocated)
    /\ heap.jump_stack.allocated => heap.tape.allocated

\* The jump stack could not be allocated after the tape was: the call has
\* returned the allocation error before reading a character, and the tape
\* was released.
C36_Witness ==
    /\ Done
    /\ ch = "none"
    /\ status = STATUS_ERR_ALLOC
    /\ heap.tape.allocated
    /\ heap.tape.freed = 1
    /\ ~heap.jump_stack.allocated
    /\ heap.jump_stack.freed = 0

\* C37 as stated: with --debug, a `#' read in skip-mode prints nothing.
C37_Original ==
    [][ (debug_enabled /\ Skipping /\ Reads(TOK_DEBUG)) =>
            stdout_dump' = stdout_dump ]_vars

C39_Original ==
    [][ Reads(TOK_JUMP_ZERO) =>
            (jump_stack'.size # jump_stack.size
                <=> jump_stack.pos = jump_stack.size) ]_vars

\* C39: the jump stack starts empty with a storage of 100 slots, of which
\* the first is never used: the bookmarks are in the slots 1 to depth.  A
\* push doubles the size exactly when the depth is the size minus one, that
\* is, when the last slot is taken: the first 99 pushes cause no growth and
\* the 100th does.  The depth is always less than the size.
C39_GrowsWhenLastSlotTaken ==
    /\ [](fp = 0 =>
            /\ jump_stack.size = INITIAL_JUMP_STACK_SIZE
            /\ jump_stack.pos = 0)
    /\ [][ Reads(TOK_JUMP_ZERO) =>
              /\ jump_stack'.size # jump_stack.size
                    <=> jump_stack.pos = jump_stack.size - 1
              /\ jump_stack'.size \in {jump_stack.size, 2 * jump_stack.size}
              /\ status' = STATUS_OK =>
                    /\ jump_stack'.pos = jump_stack.pos + 1
                    /\ jump_stack'.data[jump_stack'.pos] = pos ]_vars
    /\ [][ ~Reads(TOK_JUMP_ZERO) => jump_stack'.size = jump_stack.size ]_vars
    /\ [](jump_stack.pos < jump_stack.size)
    /\ [](jump_stack.data[0] = UNINIT)

\* The deep loop has executed its hundredth `[': 99 bookmarks filled the
\* slots 1 to 99 of the first storage, and the hundredth push has doubled
\* it.
C39_Witness ==
    /\ prog = PROG_deep_loop
    /\ ~Skipping
    /\ ch = TOK_JUMP_ZERO
    /\ fp = INITIAL_JUMP_STACK_SIZE + 1
    /\ jump_stack.pos = INITIAL_JUMP_STACK_SIZE
    /\ jump_stack.size = 2 * INITIAL_JUMP_STACK_SIZE
    /\ jump_stack.data[0] = UNINIT
    /\ jump_stack.data[INITIAL_JUMP_STACK_SIZE] = INITIAL_JUMP_STACK_SIZE
====
